---- MODULE Spec2Model ----
(***************************************************************************)
(* The concurrent, rate-limited, retrying downloader of src/main.go:       *)
(* main spawns one goroutine per URL, a buffered channel of maxParallel    *)
(* slots is the semaphore, every attempt of downloadFile passes the shared *)
(* limiter, tryDownload streams the body to the file and to the hash, and  *)
(* main collects the results from the results channel.                     *)
(*                                                                         *)
(* Time is discrete: one tick is 1/rateLimit seconds, the refill interval  *)
(* of the limiter (rate rateLimit, burst 1).                               *)
(***************************************************************************)
EXTENDS Integers, Sequences, FiniteSets, TLC

\* ------------------------------------------------------------------ bounds
\* Largest batch.
MaxURLs == 3
\* Largest maxRetries of a single-URL batch.
MaxRetries == 2
\* Largest maxRetries of a batch of several URLs.
MaxBatchRetries == 1
\* Semaphore slots. main.go:181 sets 5; scaled so that a batch exceeds it.
SemSlots == 2
\* Capacity of the results channel. main.go:61 sets 100; scaled so that a
\* batch exceeds it.
ChanCap == 1
\* Limiter rate in admissions per second (main.go:179 sets 5.0): the number
\* of ticks in one second.
rateLimit == 1
\* Number of most recent limiter admissions whose ages are remembered.
MaxWindow == 2

\* ------------------------------------------------------------- strings
\* A string is a sequence of one-character strings.
Slash == "/"

\* strings.LastIndex(s, "/"), 1-based, 0 when absent.
RECURSIVE LastSlash(_)
LastSlash(s) ==
  IF s = <<>> THEN 0
  ELSE IF s[Len(s)] = Slash THEN Len(s)
  ELSE LastSlash(SubSeq(s, 1, Len(s) - 1))

RECURSIVE StripTrailingSlashes(_)
StripTrailingSlashes(s) ==
  IF s # <<>> /\ s[Len(s)] = Slash
  THEN StripTrailingSlashes(SubSeq(s, 1, Len(s) - 1))
  ELSE s

\* path.Base as called at main.go:72.
pathBase(p) ==
  IF p = <<>> THEN <<".">>
  ELSE LET t == StripTrailingSlashes(p)
           l == SubSeq(t, LastSlash(t) + 1, Len(t))
       IN IF l = <<>> THEN <<Slash>> ELSE l

UnsafeChars == {"/", "\\", ":", "*", "?", "\"", "<", ">", "|"}

\* sanitizeFilename with only the two path separators in its list.
sanitizeFilenameSeparators(s) ==
  [k \in 1..Len(s) |-> IF s[k] \in {"/", "\\"} THEN "_" ELSE s[k]]

\* sanitizeFilename: every unsafe character becomes "_".
sanitizeFilename(s) ==
  [k \in 1..Len(s) |-> IF s[k] \in UnsafeChars THEN "_" ELSE s[k]]

\* Index of the first "/" of s, 0 when there is none.
FirstSlash(s) ==
  IF \E k \in 1..Len(s) : s[k] = Slash
  THEN CHOOSE k \in 1..Len(s) :
         s[k] = Slash /\ \A j \in 1..(k - 1) : s[j] # Slash
  ELSE 0

\* The elements of a path between its separators.
RECURSIVE SplitPath(_)
SplitPath(s) ==
  IF FirstSlash(s) = 0 THEN <<s>>
  ELSE <<SubSeq(s, 1, FirstSlash(s) - 1)>>
         \o SplitPath(SubSeq(s, FirstSlash(s) + 1, Len(s)))

DotDot == <<".", ".">>

\* filepath.Clean, element by element: empty and "." elements are dropped,
\* ".." removes the element before it, is dropped at the root and kept at the
\* start of a relative path.
RECURSIVE CleanElements(_, _, _)
CleanElements(elems, kept, rooted) ==
  IF elems = <<>> THEN kept
  ELSE LET e == Head(elems)
           kept2 ==
             IF e = <<>> \/ e = <<".">> THEN kept
             ELSE IF e = DotDot
             THEN IF kept # <<>> /\ kept[Len(kept)] # DotDot
                  THEN SubSeq(kept, 1, Len(kept) - 1)
                  ELSE IF rooted THEN kept ELSE Append(kept, e)
             ELSE Append(kept, e)
       IN CleanElements(Tail(elems), kept2, rooted)

RECURSIVE JoinElements(_)
JoinElements(elems) ==
  IF elems = <<>> THEN <<>>
  ELSE IF Len(elems) = 1 THEN elems[1]
  ELSE elems[1] \o <<Slash>> \o JoinElements(Tail(elems))

filepathClean(p) ==
  LET rooted == p # <<>> /\ p[1] = Slash
      out == (IF rooted THEN <<Slash>> ELSE <<>>)
               \o JoinElements(CleanElements(SplitPath(p), <<>>, rooted))
  IN IF out = <<>> THEN <<".">> ELSE out

\* filepath.Join(dir, name): the non-empty elements joined by "/", cleaned.
filepathJoin(dir, name) ==
  IF dir = <<>> /\ name = <<>> THEN <<>>
  ELSE IF name = <<>> THEN filepathClean(dir)
  ELSE IF dir = <<>> THEN filepathClean(name)
  ELSE filepathClean(dir \o <<Slash>> \o name)

\* ---------------------------------------------------------------- hashing
\* Byte values of the characters that occur in the modelled URLs.
CharCode(c) ==
  CASE c = "h" -> 1 [] c = "g" -> 2 [] c = "a" -> 3 [] c = "b" -> 4
    [] c = "/" -> 5 [] c = ":" -> 6 [] c = "." -> 7 [] OTHER -> 8

HashWidth == 256
HashSeed == 7

\* hash.Write of one byte into the streaming state.
HashStep(h, b) == (h * 31 + b + 1) % HashWidth

\* sha256 of a whole byte sequence: the streaming state after every byte.
RECURSIVE HashFrom(_, _)
HashFrom(h, bytes) ==
  IF bytes = <<>> THEN h
  ELSE HashFrom(HashStep(h, Head(bytes)), Tail(bytes))

Sum256(bytes) == HashFrom(HashSeed, bytes)

HexDigits == <<"0","1","2","3","4","5","6","7","8","9","a","b","c","d","e","f">>

\* hex.EncodeToString of the one-byte digest.
HexEncode(h) == <<HexDigits[(h \div 16) + 1], HexDigits[(h % 16) + 1]>>

\* fmt.Sprintf("downloaded_file_%x", sha256.Sum256([]byte(url)))
FallbackName(url) ==
  <<"d", "_">> \o HexEncode(Sum256([k \in 1..Len(url) |-> CharCode(url[k])]))

\* The destination of downloadFile, relative to outputDir (main.go:72-76).
DestName(url) ==
  LET filename == pathBase(url)
  IN sanitizeFilename(
       IF filename = <<>> \/ filename = <<"/">> \/ filename = <<".">>
       THEN FallbackName(url) ELSE filename)

\* ------------------------------------------------------------ environment
\* The URLs a batch is drawn from: two hosts serving the same base name and
\* one other name.
URLPool ==
  { <<"h", "/", "a">>, <<"g", "/", "a">>, <<"h", "/", "b">> }

\* The body each source serves (sources do not change during a batch).
ServerBody(url) ==
  CASE url = <<"h", "/", "a">> -> <<1, 2>>
    [] url = <<"g", "/", "a">> -> <<2>>
    [] OTHER -> <<1>>

\* The batches: URL lists as readURLs returns them, in order, duplicates kept.
\* A single URL with every maxRetries up to MaxRetries.
RetryBatches ==
  { [urls |-> <<u>>, maxRetries |-> r, window |-> MaxWindow] :
      u \in { <<"h", "/", "a">> }, r \in 0..MaxRetries }

\* Two different URLs: of the same base name, of different base names.
PairBatches ==
  { [urls |-> b, maxRetries |-> MaxBatchRetries, window |-> MaxWindow] :
      b \in { c \in [1..2 -> URLPool] :
                c[1] = <<"h", "/", "a">> /\ c[2] # c[1] } }

\* The URLs of the larger batch: the first one occurs again as the third.
PoolURL(k) ==
  CASE k % 3 = 1 -> <<"h", "/", "b">>
    [] k % 3 = 2 -> <<"g", "/", "a">>
    [] OTHER -> <<"h", "/", "b">>

\* More URLs than semaphore slots and than places in the results channel;
\* the ages of the admissions are not recorded.
PoolBatches ==
  { [urls |-> [k \in 1..MaxURLs |-> PoolURL(k)], maxRetries |-> 0,
     window |-> 0] }

Batches == RetryBatches \cup PairBatches \cup PoolBatches

DestNames == { DestName(u) : u \in URLPool }

\* ------------------------------------------------------------------ state
VARIABLES
  urls,        \* the batch read from the URL file
  maxRetries,  \* Downloader.maxRetries
  maxParallel, \* capacity of the semaphore channel
  resultsCap,  \* capacity of the results channel
  mainPc,      \* main: "spawn", "collect", "done", "returned"
  spawned,     \* goroutines started by the loop of main so far
  closerPc,    \* the goroutine of main.go:231: "none", "waiting", "done"
  pc,          \* position of each URL's goroutine
  attempt,     \* loop variable of downloadFile
  timer,       \* ticks left of the backoff wait
  fd,          \* inode the goroutine's open file refers to, 0 when none
  off,         \* bytes copied by the running attempt
  hst,         \* state of the streaming hash of the running attempt
  result,      \* the DownloadResult under construction / returned
  calls,       \* tryDownload calls made for the URL
  acq,         \* limiter tokens taken for the URL
  lastErr,     \* error of the last failed attempt, "nil" when none
  sem,         \* occupied semaphore slots
  results,     \* the results channel: goroutine indices in send order
  closed,      \* the results channel is closed
  wg,          \* WaitGroup counter
  completed,   \* progress.completed
  mu,          \* holder of progress.mu, 0 when free
  successful,  \* counters of the collection loop
  failed,
  recv,        \* results received by the collection loop, per goroutine
  cancelled,   \* ctx.Done() is closed
  tokens,      \* limiter tokens available
  window,      \* number of limiter admissions whose ages are remembered
  ages,        \* ticks since each of the last admissions, newest first
  fs,          \* directory: destination name -> inode, 0 when absent
  data         \* content of each inode

\* The start of main, before the batch exists (main.go:186-206).
VARIABLES
  downloader,  \* what NewDownloader returned: the pointer and the error
  exitCode     \* argument of os.Exit, -1 while the process has not exited

setupVars == <<downloader, exitCode>>

\* The derivation of a destination from one URL string (main.go:72-76) and
\* sanitizeFilename applied to a string (main.go:141-150).
VARIABLES
  arg,         \* the string passed in
  safe,        \* sanitizeFilename(arg)
  dest,        \* result.Filename of downloadFile(ctx, arg)
  usedFallback,\* the branch at main.go:73-75 was taken
  namePc       \* "start", "sanitized", "named"

nameVars == <<arg, safe, dest, usedFallback, namePc>>

\* The worker pools of the command-line variants (part_002, part_003) and of
\* the web server (part_005): one pool per call of processURLs.
VARIABLES
  variant,     \* "cli", "web", or "none" while no pool variant runs
  proc,        \* per call of processURLs: its position, batch, URL channel,
               \* WaitGroup and, per URL, how often a worker took it
  wk,          \* per call and worker: position, URL in hand, bytes copied,
               \* error returned by its last download
  disk         \* the files of the output directory: path -> exists, content

poolVars == <<variant, proc, wk, disk>>

\* The response tryDownload got from client.Do (main.go:113-121).
VARIABLES
  status       \* per URL: resp.StatusCode of the call of tryDownload that is
               \* running or whose error downloadFile holds, 0 when the
               \* call got no response or none was made

respVars == <<status>>

\* The web server (part_005, part_009) beside its worker pools.
\* The WebSocket clients: handleWebSocket and broadcastStatus.
VARIABLES
  clients,     \* the clients map: the connections registered
  clientsMux,  \* the goroutine that holds clientsMux, <<>> when it is free
  ws,          \* per connection: position of its handleWebSocket
  bc,          \* per call of broadcastStatus: position and the clients the
               \* range loop has still to visit
  writing      \* per connection: the goroutines inside conn.WriteMessage

\* The copy of downloadFile: the progressReader and its subscriber.
VARIABLES
  rd,          \* per worker: position of io.Copy and of progressReader.Read
  sub          \* per worker: position of the goroutine that ranges over
               \* progressChan

\* downloadTorrent.
VARIABLES
  age,         \* per worker: hours since it entered downloadTorrent
  after        \* per worker: hours since time.After was called, -1 before

webVars == <<clients, clientsMux, ws, bc, writing, rd, sub, age, after>>

\* readURLs (main.go:153-173).
VARIABLES
  fileText,    \* the bytes of the URL file
  scanner,     \* the bufio.Scanner: the number of bytes its tokens consumed
  read         \* readURLs: its position, the urls slice and the error

readVars == <<fileText, scanner, read>>

\* The web server's status map (part_005:38-39, 111-117).
VARIABLES
  downloadsMutex, \* the goroutine that holds downloadsMutex, <<>> when free
  getStatus       \* per GET /api/status request: position of its handler

lockVars == <<downloadsMutex, getStatus>>

VARIABLES
  activeDownloads, \* the status map: URL -> Status, Progress, Completed, Error
  reporting,       \* per worker: the URL, by its place in the list, for which
                   \* it has called updateDownloadStatus with "downloading"
                   \* and not yet with the outcome, 0 if none
  progressChan     \* per worker: the progressChan of its downloadFile: open
                   \* or closed, how often it was closed, the URL, and the
                   \* value its subscriber received last

statusVars == <<activeDownloads, reporting, progressChan>>

\* The SFTP and database variant (part_000:23-146).
VARIABLES
  archives,    \* the rows the query returned: per oms_id the oms_filename
  db,          \* oms_archives: per oms_id the column is_downloaded
  local,       \* the files of LOCAL_DIRECTORY, by name
  ar,          \* per archive: the position of its goroutine, the bytes it
               \* copied, what os.Stat told it, and what it did
  sftp         \* main: its position in the loop, sem and wg

sftpVars == <<archives, db, local, ar, sftp>>

\* The state of the routines beside the download pools.
extVars == <<readVars, lockVars, statusVars, sftpVars>>

\* The state beside the batch of main.go listed in mainVars.
variantVars == <<setupVars, nameVars, poolVars, respVars, webVars, extVars>>

mainVars == <<urls, maxRetries, maxParallel, resultsCap, mainPc, spawned,
              closerPc, pc, attempt, timer, fd, off, hst, result, calls, acq,
              lastErr, sem, results, closed, wg, completed, mu, successful,
              failed, recv, cancelled, tokens, window, ages, fs, data,
              status>>

vars == <<urls, maxRetries, maxParallel, resultsCap, mainPc, spawned, closerPc, pc, attempt, timer, fd,
          off, hst, result, calls, acq, lastErr, sem, results, closed, wg,
          completed, mu, successful, failed, recv, cancelled, tokens, window,
          ages, fs, data, variantVars>>

N == Len(urls)
G == 1..N

InodeIds == 1..(MaxURLs * (MaxRetries + 1))

\* The inode a goroutine's attempt creates when the name is absent.
NewInode(i, a) == (i - 1) * (MaxRetries + 1) + a + 1

NoError == [kind |-> "nil", n |-> 0, cause |-> "nil"]

\* The zero DownloadResult (URL and Filename are functions of urls[i]).
ZeroResult == [Success |-> FALSE, Error |-> NoError, Hash |-> <<>>]

Filename(i) == DestName(urls[i])

Body(i) == ServerBody(urls[i])

Min(a, b) == IF a < b THEN a ELSE b

\* The ceiling of the remembered ages: older admissions are not told apart.
AgeCap == MaxWindow

\* NewDownloader has returned a Downloader and no error (main.go:54-63).
DownloaderOk == [ptr |-> "ok", err |-> "nil"]

\* No string is being worked on.
NameIdle ==
  /\ arg = <<>>
  /\ safe = <<>>
  /\ dest = <<>>
  /\ usedFallback = FALSE
  /\ namePc = "idle"

\* const workers = 5 (part_002:16, part_005:21; maxWorkers in part_003:16),
\* scaled so that a batch exceeds it.
workers == 2

\* The longest list of URLs one POST /api/download carries here.
MaxBatch == 2

\* Calls of processURLs that can run at the same time: POST requests the web
\* server accepts.
MaxRequests == 2

\* const outputDir = "./downloads" (main.go:178; downloadFolder in
\* part_005:22), the directory name shortened to one letter.
outputDir == <<".", "/", "d">>

\* strings.HasPrefix(url, "magnet:") || strings.HasSuffix(url, ".torrent")
\* (part_005:180), with "m:" for "magnet:" and ".t" for ".torrent".
IsTorrent(url) ==
  /\ Len(url) >= 2
  /\ \/ SubSeq(url, 1, 2) = <<"m", ":">>
     \/ SubSeq(url, Len(url) - 1, Len(url)) = <<".", "t">>

Magnet == <<"m", ":", "x">>

\* The file a download writes: filepath.Join(outputDir, filepath.Base(url))
\* (part_002:29); the web server replaces the base names "", "." and "/" by
\* "downloaded_file" (part_005:232-236), written "f".
OutputPath(v, url) ==
  LET fileName == pathBase(url)
  IN filepathJoin(outputDir,
       IF v = "web" /\ fileName \in {<<>>, <<".">>, <<"/">>}
       THEN <<"f">> ELSE fileName)

\* The paths the modelled URLs are written to.
OutputPaths == { OutputPath("cli", u) : u \in URLPool }

\* A call of processURLs that has not been made, and a worker not started.
NoProc ==
  [pc |-> "idle", urls |-> <<>>, started |-> 0, urlChan |-> <<>>,
   closed |-> FALSE, fed |-> 0, wg |-> 0, taken |-> <<>>]

NoWorker == [pc |-> "none", url |-> 0, off |-> 0, err |-> "none"]

\* The output directory before a batch: one file is there already, longer
\* than any body.
OldDisk ==
  [f \in OutputPaths |->
     IF f = OutputPath("cli", <<"h", "/", "a">>)
     THEN [exists |-> TRUE, content |-> <<9, 9, 9>>]
     ELSE [exists |-> FALSE, content |-> <<>>]]

\* No pool variant is running.
PoolIdle ==
  /\ variant = "none"
  /\ proc = [r \in 1..MaxRequests |-> NoProc]
  /\ wk = [r \in 1..MaxRequests |-> [w \in 1..workers |-> NoWorker]]
  /\ disk = OldDisk

\* The state after NewDownloader and readURLs, at main.go:208, for a batch b,
\* an output directory that holds the names fsx with the contents datax, and
\* a semaphore of so many slots.
InitBatchOf(b, fsx, datax, slots) ==
  /\ urls = b.urls
  /\ maxRetries = b.maxRetries
  /\ maxParallel = slots
  /\ resultsCap = ChanCap
  /\ mainPc = "spawn"
  /\ spawned = 0
  /\ closerPc = "none"
  /\ pc = [i \in 1..Len(b.urls) |-> "idle"]
  /\ attempt = [i \in 1..Len(b.urls) |-> 0]
  /\ timer = [i \in 1..Len(b.urls) |-> 0]
  /\ fd = [i \in 1..Len(b.urls) |-> 0]
  /\ off = [i \in 1..Len(b.urls) |-> 0]
  /\ hst = [i \in 1..Len(b.urls) |-> HashSeed]
  /\ result = [i \in 1..Len(b.urls) |-> ZeroResult]
  /\ calls = [i \in 1..Len(b.urls) |-> 0]
  /\ acq = [i \in 1..Len(b.urls) |-> 0]
  /\ lastErr = [i \in 1..Len(b.urls) |-> "nil"]
  /\ sem = 0
  /\ results = <<>>
  /\ closed = FALSE
  /\ wg = 0
  /\ completed = 0
  /\ mu = 0
  /\ successful = 0
  /\ failed = 0
  /\ recv = [i \in 1..Len(b.urls) |-> 0]
  /\ cancelled = FALSE
  /\ tokens = 1
  /\ window = b.window
  /\ ages = <<>>
  /\ fs = fsx
  /\ data = datax
  /\ downloader = DownloaderOk
  /\ exitCode = -1
  /\ status = [i \in 1..Len(b.urls) |-> 0]

InitBatchIn(b, fsx, datax) == InitBatchOf(b, fsx, datax, SemSlots)

\* The batch b in an output directory that MkdirAll has just created.
InitBatch(b) ==
  InitBatchIn(b, [f \in DestNames |-> 0], [k \in InodeIds |-> <<>>])

\* WebSocket connections made to the server.
MaxConns == 2

\* Calls of broadcastStatus that can run at the same time.
MaxBroadcasts == 2

\* The timeout of downloadTorrent in hours. part_005:357 sets 24; scaled.
TorrentHours == 2

\* No client has connected, nothing is broadcast, no download is inside its
\* copy or inside downloadTorrent.
WebIdle ==
  /\ clients = {}
  /\ clientsMux = <<>>
  /\ ws = [c \in 1..MaxConns |-> "none"]
  /\ bc = [b \in 1..MaxBroadcasts |-> [pc |-> "none", todo |-> {}, cur |-> 0]]
  /\ writing = [c \in 1..MaxConns |-> {}]
  /\ rd = [w \in 1..workers |-> [pc |-> "none", n |-> 0, err |-> "nil"]]
  /\ sub = [u \in 1..MaxBatch |-> "none"]
  /\ age = [w \in 1..workers |-> 0]
  /\ after = [w \in 1..workers |-> -1]

\* readURLs is not running.
ReadIdle ==
  /\ fileText = <<>>
  /\ scanner = 0
  /\ read = [pc |-> "none", urls |-> <<>>, err |-> "nil"]

\* GET /api/status requests that can run at the same time.
MaxStatusRequests == 1

\* Nobody holds downloadsMutex.
LockIdle ==
  /\ downloadsMutex = <<>>
  /\ getStatus = [g \in 1..MaxStatusRequests |-> "none"]

\* No channel made yet.
NoChan == [state |-> "none", closes |-> 0, url |-> 0, value |-> 0, size |-> 0]

\* No URL was submitted.
StatusIdle ==
  /\ activeDownloads = <<>>
  /\ reporting = [w \in 1..workers |-> 0]
  /\ progressChan = [u \in 1..MaxBatch |-> NoChan]

\* Archives the query returns, scaled.
MaxArchives == 3

\* The SFTP variant is not running.
NoArchive == [pc |-> "none", off |-> 0, existed |-> FALSE, ops |-> {}]

NoLocalFile == [exists |-> FALSE, content |-> <<>>]

SftpIdle ==
  /\ archives = <<>>
  /\ db = <<>>
  /\ local = <<>>
  /\ ar = <<>>
  /\ sftp = [pc |-> "none", next |-> 0, sem |-> 0, wg |-> 0]

ExtIdle == ReadIdle /\ LockIdle /\ StatusIdle /\ SftpIdle

\* Only the batch of main.go is running.
VariantsIdle == NameIdle /\ PoolIdle /\ WebIdle /\ ExtIdle

Init == VariantsIdle /\ \E b \in Batches : InitBatch(b)
InitRetry == VariantsIdle /\ \E b \in RetryBatches : InitBatch(b)
InitPair == VariantsIdle /\ \E b \in PairBatches : InitBatch(b)
InitPool == VariantsIdle /\ \E b \in PoolBatches : InitBatch(b)

\* ------------------------------------------------------------- file system
\* The inodes still reachable: linked under a name or held open.
Live(fsx, fdx) == { fsx[f] : f \in DestNames } \cup { fdx[j] : j \in G }

\* Storage of unreachable inodes is released.
Sweep(d, fsx, fdx) ==
  [k \in InodeIds |-> IF k \in Live(fsx, fdx) THEN d[k] ELSE <<>>]

\* File.Write of one byte at offset o (holes read as 0).
WriteAt(c, o, b) ==
  [k \in 1..(IF o + 1 > Len(c) THEN o + 1 ELSE Len(c)) |->
     IF k = o + 1 THEN b ELSE IF k <= Len(c) THEN c[k] ELSE 0]

\* What os.ReadFile would return for a name, <<>> with exists = FALSE if absent.
Exists(f) == fs[f] # 0
Content(f) == data[fs[f]]

\* ------------------------------------------------------------------- main
\* One iteration of the loop at main.go:213: wg.Add(1) and the go statement.
Spawn ==
  /\ mainPc = "spawn"
  /\ spawned < N
  /\ spawned' = spawned + 1
  /\ wg' = wg + 1
  /\ pc' = [pc EXCEPT ![spawned + 1] = "acquire"]
  /\ UNCHANGED <<urls, maxRetries, maxParallel, resultsCap, mainPc, closerPc,
                 attempt, timer, fd, off, hst, result, calls, acq, lastErr,
                 sem, results, closed, completed, mu, successful, failed, recv,
                 cancelled, tokens, window, ages, fs, data,
                 variantVars>>

\* The loop is over: main starts the closing goroutine (main.go:231) and
\* enters the collection loop.
StartCollect ==
  /\ mainPc = "spawn"
  /\ spawned = N
  /\ mainPc' = "collect"
  /\ closerPc' = "waiting"
  /\ UNCHANGED <<urls, maxRetries, maxParallel, resultsCap, spawned, pc,
                 attempt, timer, fd, off, hst, result, calls, acq, lastErr,
                 sem, results, closed, wg, completed, mu, successful, failed,
                 recv, cancelled, tokens, window, ages, fs, data,
                 variantVars>>

\* CloseResults without the wg.Wait().
CloseResultsEarly ==
  /\ closerPc = "waiting"
  /\ closed' = TRUE
  /\ closerPc' = "done"
  /\ UNCHANGED <<urls, maxRetries, maxParallel, resultsCap, mainPc, spawned,
                 pc, attempt, timer, fd, off, hst, result, calls, acq, lastErr,
                 sem, results, wg, completed, mu, successful, failed, recv,
                 cancelled, tokens, window, ages, fs, data, variantVars>>

\* wg.Wait() returns and the results channel is closed (main.go:232-233).
CloseResults ==
  /\ closerPc = "waiting"
  /\ wg = 0
  /\ closed' = TRUE
  /\ closerPc' = "done"
  /\ UNCHANGED <<urls, maxRetries, maxParallel, resultsCap, mainPc, spawned,
                 pc, attempt, timer, fd, off, hst, result, calls, acq, lastErr,
                 sem, results, wg, completed, mu, successful, failed, recv,
                 cancelled, tokens, window, ages, fs, data,
                 variantVars>>

\* Collect with cancellation outcomes left out of the failed count.
CollectSkipsCancelled ==
  /\ mainPc = "collect"
  /\ results # <<>>
  /\ LET i == Head(results) IN
       /\ recv' = [recv EXCEPT ![i] = @ + 1]
       /\ IF result[i].Success
          THEN successful' = successful + 1 /\ failed' = failed
          ELSE IF result[i].Error.cause = "canceled"
          THEN failed' = failed /\ successful' = successful
          ELSE failed' = failed + 1 /\ successful' = successful
  /\ results' = Tail(results)
  /\ UNCHANGED <<urls, maxRetries, maxParallel, resultsCap, mainPc, spawned,
                 closerPc, pc, attempt, timer, fd, off, hst, result, calls,
                 acq, lastErr, sem, closed, wg, completed, mu, cancelled,
                 tokens, window, ages, fs, data,
                 variantVars>>

\* One iteration of the collection loop (main.go:240-248).
Collect ==
  /\ mainPc = "collect"
  /\ results # <<>>
  /\ LET i == Head(results) IN
       /\ recv' = [recv EXCEPT ![i] = @ + 1]
       /\ IF result[i].Success
          THEN successful' = successful + 1 /\ failed' = failed
          ELSE failed' = failed + 1 /\ successful' = successful
  /\ results' = Tail(results)
  /\ UNCHANGED <<urls, maxRetries, maxParallel, resultsCap, mainPc, spawned,
                 closerPc, pc, attempt, timer, fd, off, hst, result, calls,
                 acq, lastErr, sem, closed, wg, completed, mu, cancelled,
                 tokens, window, ages, fs, data,
                 variantVars>>

\* The range loop ends on the closed, drained channel; the summary is printed.
Summary ==
  /\ mainPc = "collect"
  /\ results = <<>>
  /\ closed
  /\ mainPc' = "done"
  /\ UNCHANGED <<urls, maxRetries, maxParallel, resultsCap, spawned, closerPc,
                 pc, attempt, timer, fd, off, hst, result, calls, acq, lastErr,
                 sem, results, closed, wg, completed, mu, successful, failed,
                 recv, cancelled, tokens, window, ages, fs, data,
                 variantVars>>

\* main returns: the deferred cancel() runs (main.go:187).
MainReturn ==
  /\ mainPc = "done"
  /\ mainPc' = "returned"
  /\ cancelled' = TRUE
  /\ UNCHANGED <<urls, maxRetries, maxParallel, resultsCap, spawned, closerPc,
                 pc, attempt, timer, fd, off, hst, result, calls, acq, lastErr,
                 sem, results, closed, wg, completed, mu, successful, failed,
                 recv, tokens, window, ages, fs, data,
                 variantVars>>

\* The context handed to downloadFile is cancelled while the batch runs.
\* downloadFile and tryDownload take ctx as a parameter and handle ctx.Done()
\* at main.go:80, 96 and 108; this is the event they handle.
Cancel ==
  /\ mainPc \in {"spawn", "collect"}
  /\ ~cancelled
  /\ cancelled' = TRUE
  /\ UNCHANGED <<urls, maxRetries, maxParallel, resultsCap, mainPc, spawned,
                 closerPc, pc, attempt, timer, fd, off, hst, result, calls,
                 acq, lastErr, sem, results, closed, wg, completed, mu,
                 successful, failed, recv, tokens, window, ages, fs, data,
                 variantVars>>

\* 1/rateLimit seconds pass: the limiter (burst 1) regains its token, the
\* backoff timers run down, the remembered admissions age. A select that
\* waits at main.go:95 when ctx.Done() is closed is decided by it: its timer
\* no longer counts.
Tick ==
  /\ mainPc # "returned"
  /\ tokens' = Min(1, tokens + 1)
  /\ timer' = [i \in G |-> IF timer[i] > 0 /\ ~cancelled
                            THEN timer[i] - 1 ELSE timer[i]]
  /\ ages' = [k \in 1..Len(ages) |-> Min(AgeCap, ages[k] + 1)]
  /\ UNCHANGED <<urls, maxRetries, maxParallel, resultsCap, mainPc, spawned,
                 closerPc, pc, attempt, fd, off, hst, result, calls, acq,
                 lastErr, sem, results, closed, wg, completed, mu, successful,
                 failed, recv, cancelled, window, fs, data,
                 variantVars>>

\* ------------------------------------------------- the goroutine of a URL
\* The loop with limiter.Wait before the first attempt only.
LoopTestWaitOnce(a) ==
  IF a <= maxRetries THEN (IF a = 0 THEN "wait" ELSE "request") ELSE "send"

\* The loop test of downloadFile, attempt <= d.maxRetries (main.go:79): the
\* body starts at limiter.Wait, after the loop the result is returned as it
\* is (main.go:103).
LoopTest(a) == IF a <= maxRetries THEN "wait" ELSE "send"

\* Acquire without the capacity of the semaphore channel.
AcquireUnbounded(i) ==
  /\ pc[i] = "acquire"
  /\ sem' = sem + 1
  /\ pc' = [pc EXCEPT ![i] = LoopTest(0)]
  /\ UNCHANGED <<urls, maxRetries, maxParallel, resultsCap, mainPc, spawned,
                 closerPc, attempt, timer, fd, off, hst, result, calls, acq,
                 lastErr, results, closed, wg, completed, mu, successful,
                 failed, recv, cancelled, tokens, window, ages, fs, data,
                 variantVars>>

\* semaphore <- struct{}{} (main.go:217), then downloadFile is entered.
Acquire(i) ==
  /\ pc[i] = "acquire"
  /\ sem < maxParallel
  /\ sem' = sem + 1
  /\ pc' = [pc EXCEPT ![i] = LoopTest(0)]
  /\ UNCHANGED <<urls, maxRetries, maxParallel, resultsCap, mainPc, spawned,
                 closerPc, attempt, timer, fd, off, hst, result, calls, acq,
                 lastErr, results, closed, wg, completed, mu, successful,
                 failed, recv, cancelled, tokens, window, ages, fs, data,
                 variantVars>>

\* The ages of the last admissions after one more admission.
Admit(a) == SubSeq(<<0>> \o a, 1, Min(window, Len(a) + 1))

\* LimiterWaitOk for a Wait that is not given the batch's context.
LimiterWaitOkAnyContext(i) ==
  /\ pc[i] = "wait"
  /\ tokens >= 1
  /\ tokens' = tokens - 1
  /\ ages' = Admit(ages)
  /\ acq' = [acq EXCEPT ![i] = @ + 1]
  /\ pc' = [pc EXCEPT ![i] = "request"]
  /\ UNCHANGED <<urls, maxRetries, maxParallel, resultsCap, mainPc, spawned,
                 closerPc, attempt, timer, fd, off, hst, result, calls,
                 lastErr, sem, results, closed, wg, completed, mu, successful,
                 failed, recv, cancelled, window, fs, data,
                 variantVars>>

\* limiter.Wait(ctx) returns nil (main.go:80): a token was available and the
\* context is not cancelled.
LimiterWaitOk(i) ==
  /\ pc[i] = "wait"
  /\ ~cancelled
  /\ tokens >= 1
  /\ tokens' = tokens - 1
  /\ ages' = Admit(ages)
  /\ acq' = [acq EXCEPT ![i] = @ + 1]
  /\ pc' = [pc EXCEPT ![i] = "request"]
  /\ UNCHANGED <<urls, maxRetries, maxParallel, resultsCap, mainPc, spawned,
                 closerPc, attempt, timer, fd, off, hst, result, calls,
                 lastErr, sem, results, closed, wg, completed, mu, successful,
                 failed, recv, cancelled, window, fs, data,
                 variantVars>>

\* fmt.Errorf("rate limit wait failed: %w", err)
RateLimitError == [kind |-> "ratelimit", n |-> 0, cause |-> "canceled"]

\* LimiterWaitErr that goes on to the attempt in spite of the error.
LimiterWaitErrIgnored(i) ==
  /\ pc[i] = "wait"
  /\ cancelled
  /\ pc' = [pc EXCEPT ![i] = "request"]
  /\ UNCHANGED <<urls, maxRetries, maxParallel, resultsCap, mainPc, spawned,
                 closerPc, attempt, timer, fd, off, hst, result, calls, acq,
                 lastErr, sem, results, closed, wg, completed, mu, successful,
                 failed, recv, cancelled, tokens, window, ages, fs, data,
                 variantVars>>

\* limiter.Wait(ctx) returns the context's error (main.go:80-83).
LimiterWaitErr(i) ==
  /\ pc[i] = "wait"
  /\ cancelled
  /\ result' = [result EXCEPT ![i].Error = RateLimitError]
  /\ pc' = [pc EXCEPT ![i] = "send"]
  /\ UNCHANGED <<urls, maxRetries, maxParallel, resultsCap, mainPc, spawned,
                 closerPc, attempt, timer, fd, off, hst, calls, acq, lastErr,
                 sem, results, closed, wg, completed, mu, successful, failed,
                 recv, cancelled, tokens, window, ages, fs, data,
                 variantVars>>

\* The test for the last attempt, one attempt early.
IsLastAttemptEarly(a) == a + 1 >= maxRetries

\* attempt == d.maxRetries (main.go:89)
IsLastAttempt(a) == a = maxRetries

\* fmt.Errorf("failed after %d attempts: %w", d.maxRetries, err) (main.go:90)
ExhaustedError(cause) ==
  [kind |-> "exhausted", n |-> maxRetries, cause |-> cause]

\* A backoff of one second after every attempt.
BackoffTicksFixed(a) == rateLimit

\* time.Duration(attempt+1) * time.Second, in ticks (main.go:99)
BackoffTicks(a) == (a + 1) * rateLimit

\* tryDownload returned an error to downloadFile (main.go:85-100): the last
\* attempt returns the failure, any other one starts the backoff wait.
AttemptFailed(i, cause) ==
  IF IsLastAttempt(attempt[i])
  THEN /\ result' = [result EXCEPT ![i].Error = ExhaustedError(cause)]
       /\ pc' = [pc EXCEPT ![i] = "send"]
       /\ timer' = timer
       /\ lastErr' = lastErr
  ELSE /\ result' = result
       /\ pc' = [pc EXCEPT ![i] = "backoff"]
       /\ timer' = [timer EXCEPT ![i] = BackoffTicks(attempt[i])]
       /\ lastErr' = [lastErr EXCEPT ![i] = cause]

\* The status codes of the responses: OK, another 2xx code, a code outside
\* 2xx.
Statuses == {200, 204, 404}

\* fmt.Errorf("unexpected status code: %d", resp.StatusCode) (main.go:120)
StatusError(code) ==
  CASE code = 204 -> "unexpected status code: 204"
    [] code = 404 -> "unexpected status code: 404"
    [] OTHER -> "unexpected status code"

\* The ways tryDownload fails before the copy, with the status of the
\* response when there was one: client.Do fails, the status is not 200,
\* os.Create fails. With the context cancelled the request fails with the
\* context's error.
RequestErrors ==
  IF cancelled THEN {[status |-> 0, cause |-> "canceled"]}
  ELSE {[status |-> 0, cause |-> "request"],
        [status |-> 200, cause |-> "create"]}
         \cup {[status |-> c, cause |-> StatusError(c)] : c \in Statuses \ {200}}

\* TryDownloadErr that gives up the whole batch when a URL has used up its
\* attempts: the context is cancelled.
TryDownloadErrAborts(i) ==
  /\ pc[i] = "request"
  /\ calls' = [calls EXCEPT ![i] = @ + 1]
  /\ \E e \in RequestErrors :
       /\ status' = [status EXCEPT ![i] = e.status]
       /\ AttemptFailed(i, e.cause)
  /\ cancelled' = (cancelled \/ IsLastAttempt(attempt[i]))
  /\ UNCHANGED <<urls, maxRetries, maxParallel, resultsCap, mainPc, spawned,
                 closerPc, attempt, fd, off, hst, acq, sem, results, closed,
                 wg, completed, mu, successful, failed, recv, tokens, window,
                 ages, fs, data,
                 setupVars, nameVars, poolVars, webVars, extVars>>

\* TryDownloadErr that has opened the destination before the request: an
\* existing file is truncated whatever the response.
TryDownloadErrCreatesFirst(i) ==
  /\ pc[i] = "request"
  /\ calls' = [calls EXCEPT ![i] = @ + 1]
  /\ \E e \in RequestErrors :
       /\ status' = [status EXCEPT ![i] = e.status]
       /\ AttemptFailed(i, e.cause)
  /\ data' = IF fs[Filename(i)] = 0 THEN data
             ELSE [data EXCEPT ![fs[Filename(i)]] = <<>>]
  /\ UNCHANGED <<urls, maxRetries, maxParallel, resultsCap, mainPc, spawned,
                 closerPc, attempt, fd, off, hst, acq, sem, results, closed,
                 wg, completed, mu, successful, failed, recv, cancelled,
                 tokens, window, ages, fs,
                 setupVars, nameVars, poolVars, webVars, extVars>>

\* tryDownload fails before the copy (main.go:108-126): the request cannot be
\* made, the status is not 200, or os.Create fails. Nothing is created or
\* truncated.
TryDownloadErr(i) ==
  /\ pc[i] = "request"
  /\ calls' = [calls EXCEPT ![i] = @ + 1]
  /\ \E e \in RequestErrors :
       /\ status' = [status EXCEPT ![i] = e.status]
       /\ AttemptFailed(i, e.cause)
  /\ UNCHANGED <<urls, maxRetries, maxParallel, resultsCap, mainPc, spawned,
                 closerPc, attempt, fd, off, hst, acq, sem, results, closed,
                 wg, completed, mu, successful, failed, recv, cancelled,
                 tokens, window, ages, fs, data,
                 setupVars, nameVars, poolVars, webVars, extVars>>

\* Create that opens an existing file without truncating it.
CreateNoTruncate(i) ==
  LET f == Filename(i)
      k == IF fs[f] = 0 THEN NewInode(i, attempt[i]) ELSE fs[f]
  IN /\ fs' = [fs EXCEPT ![f] = k]
     /\ data' = data
     /\ fd' = [fd EXCEPT ![i] = k]

\* os.Create(filename): the name refers to an empty file, a new one or the
\* existing one truncated (main.go:123).
Create(i) ==
  LET f == Filename(i)
      k == IF fs[f] = 0 THEN NewInode(i, attempt[i]) ELSE fs[f]
  IN /\ fs' = [fs EXCEPT ![f] = k]
     /\ data' = [data EXCEPT ![k] = <<>>]
     /\ fd' = [fd EXCEPT ![i] = k]

\* TryDownloadOpen with one hash object for all attempts of a URL.
TryDownloadOpenStaleHash(i) ==
  /\ pc[i] = "request"
  /\ ~cancelled
  /\ calls' = [calls EXCEPT ![i] = @ + 1]
  /\ status' = [status EXCEPT ![i] = 200]
  /\ Create(i)
  /\ off' = [off EXCEPT ![i] = 0]
  /\ pc' = [pc EXCEPT ![i] = "copy"]
  /\ UNCHANGED <<urls, maxRetries, maxParallel, resultsCap, mainPc, spawned,
                 closerPc, attempt, timer, hst, result, acq, lastErr, sem,
                 results, closed, wg, completed, mu, successful, failed, recv,
                 cancelled, tokens, window, ages,
                 setupVars, nameVars, poolVars, webVars, extVars>>

\* tryDownload gets status 200 and creates the file; the hash is fresh
\* (main.go:108-130).
TryDownloadOpen(i) ==
  /\ pc[i] = "request"
  /\ ~cancelled
  /\ calls' = [calls EXCEPT ![i] = @ + 1]
  /\ status' = [status EXCEPT ![i] = 200]
  /\ Create(i)
  /\ off' = [off EXCEPT ![i] = 0]
  /\ hst' = [hst EXCEPT ![i] = HashSeed]
  /\ pc' = [pc EXCEPT ![i] = "copy"]
  /\ UNCHANGED <<urls, maxRetries, maxParallel, resultsCap, mainPc, spawned,
                 closerPc, attempt, timer, result, acq, lastErr, sem, results,
                 closed, wg, completed, mu, successful, failed, recv,
                 cancelled, tokens, window, ages,
                 setupVars, nameVars, poolVars, webVars, extVars>>

\* io.Copy moves one more byte of the body through the MultiWriter: to the
\* file, then to the hash (main.go:130-132).
CopyChunk(i) ==
  /\ pc[i] = "copy"
  /\ off[i] < Len(Body(i))
  /\ LET b == Body(i)[off[i] + 1] IN
       /\ data' = [data EXCEPT ![fd[i]] = WriteAt(@, off[i], b)]
       /\ hst' = [hst EXCEPT ![i] = HashStep(@, b)]
  /\ off' = [off EXCEPT ![i] = @ + 1]
  /\ UNCHANGED <<urls, maxRetries, maxParallel, resultsCap, mainPc, spawned,
                 closerPc, pc, attempt, timer, fd, result, calls, acq, lastErr,
                 sem, results, closed, wg, completed, mu, successful, failed,
                 recv, cancelled, tokens, window, ages, fs,
                 variantVars>>

\* os.Remove(filename) (main.go:133): the name is unlinked.
Remove(fsx, f) == [fsx EXCEPT ![f] = 0]

\* The errors io.Copy can return: a read or write error, and the context's
\* error once it is cancelled.
CopyErrors == IF cancelled THEN {"copy", "canceled"} ELSE {"copy"}

\* CopyErr without the os.Remove.
CopyErrKeepsFile(i) ==
  /\ pc[i] = "copy"
  /\ \E cause \in CopyErrors : AttemptFailed(i, cause)
  /\ LET fd2 == [fd EXCEPT ![i] = 0]
     IN /\ fd' = fd2
        /\ data' = Sweep(data, fs, fd2)
  /\ UNCHANGED <<urls, maxRetries, maxParallel, resultsCap, mainPc, spawned,
                 closerPc, attempt, off, hst, calls, acq, sem, results, closed,
                 wg, completed, mu, successful, failed, recv, cancelled,
                 tokens, window, ages, fs,
                 variantVars>>

\* io.Copy fails (main.go:132-135): the file is removed, then closed.
CopyErr(i) ==
  /\ pc[i] = "copy"
  /\ \E cause \in CopyErrors : AttemptFailed(i, cause)
  /\ LET fs2 == Remove(fs, Filename(i))
         fd2 == [fd EXCEPT ![i] = 0]
     IN /\ fs' = fs2
        /\ fd' = fd2
        /\ data' = Sweep(data, fs2, fd2)
  /\ UNCHANGED <<urls, maxRetries, maxParallel, resultsCap, mainPc, spawned,
                 closerPc, attempt, off, hst, calls, acq, sem, results, closed,
                 wg, completed, mu, successful, failed, recv, cancelled,
                 tokens, window, ages,
                 variantVars>>

\* hex.EncodeToString(hash.Sum(nil)) (main.go:137)
Digest(h) == HexEncode(h)

\* CopyDone with the cleanup of the error path run on success too.
CopyDoneRemoves(i) ==
  /\ pc[i] = "copy"
  /\ off[i] = Len(Body(i))
  /\ result' = [result EXCEPT ![i].Success = TRUE, ![i].Hash = Digest(hst[i])]
  /\ LET fs2 == Remove(fs, Filename(i))
         fd2 == [fd EXCEPT ![i] = 0]
     IN /\ fs' = fs2
        /\ fd' = fd2
        /\ data' = Sweep(data, fs2, fd2)
  /\ pc' = [pc EXCEPT ![i] = "send"]
  /\ UNCHANGED <<urls, maxRetries, maxParallel, resultsCap, mainPc, spawned,
                 closerPc, attempt, timer, off, hst, calls, acq, lastErr, sem,
                 results, closed, wg, completed, mu, successful, failed, recv,
                 cancelled, tokens, window, ages,
                 variantVars>>

\* io.Copy reaches the end of the body: tryDownload returns the digest and
\* downloadFile returns the successful result (main.go:85-88, 137).
CopyDone(i) ==
  /\ pc[i] = "copy"
  /\ off[i] = Len(Body(i))
  /\ result' = [result EXCEPT ![i].Success = TRUE, ![i].Hash = Digest(hst[i])]
  /\ LET fd2 == [fd EXCEPT ![i] = 0]
     IN /\ fd' = fd2
        /\ data' = Sweep(data, fs, fd2)
  /\ pc' = [pc EXCEPT ![i] = "send"]
  /\ UNCHANGED <<urls, maxRetries, maxParallel, resultsCap, mainPc, spawned,
                 closerPc, attempt, timer, off, hst, calls, acq, lastErr, sem,
                 results, closed, wg, completed, mu, successful, failed, recv,
                 cancelled, tokens, window, ages, fs,
                 variantVars>>

\* BackoffDone that does not wait for the timer.
BackoffDoneEarly(i) ==
  /\ pc[i] = "backoff"
  /\ attempt' = [attempt EXCEPT ![i] = @ + 1]
  /\ lastErr' = [lastErr EXCEPT ![i] = "nil"]
  /\ status' = [status EXCEPT ![i] = 0]
  /\ pc' = [pc EXCEPT ![i] = LoopTest(attempt[i] + 1)]
  /\ UNCHANGED <<urls, maxRetries, maxParallel, resultsCap, mainPc, spawned,
                 closerPc, timer, fd, off, hst, result, calls, acq, sem,
                 results, closed, wg, completed, mu, successful, failed, recv,
                 cancelled, tokens, window, ages, fs, data,
                 setupVars, nameVars, poolVars, webVars, extVars>>

\* time.After fires (main.go:99): attempt++ and the loop test.
BackoffDone(i) ==
  /\ pc[i] = "backoff"
  /\ timer[i] = 0
  /\ attempt' = [attempt EXCEPT ![i] = @ + 1]
  /\ lastErr' = [lastErr EXCEPT ![i] = "nil"]
  /\ status' = [status EXCEPT ![i] = 0]
  /\ pc' = [pc EXCEPT ![i] = LoopTest(attempt[i] + 1)]
  /\ UNCHANGED <<urls, maxRetries, maxParallel, resultsCap, mainPc, spawned,
                 closerPc, timer, fd, off, hst, result, calls, acq, sem,
                 results, closed, wg, completed, mu, successful, failed, recv,
                 cancelled, tokens, window, ages, fs, data,
                 setupVars, nameVars, poolVars, webVars, extVars>>

\* result.Error = ctx.Err() (main.go:97)
ContextError == [kind |-> "ctx", n |-> 0, cause |-> "canceled"]

\* ctx.Done() is chosen by the select (main.go:96-98).
BackoffCancelled(i) ==
  /\ pc[i] = "backoff"
  /\ cancelled
  /\ result' = [result EXCEPT ![i].Error = ContextError]
  /\ timer' = [timer EXCEPT ![i] = 0]
  /\ lastErr' = [lastErr EXCEPT ![i] = "nil"]
  /\ status' = [status EXCEPT ![i] = 0]
  /\ pc' = [pc EXCEPT ![i] = "send"]
  /\ UNCHANGED <<urls, maxRetries, maxParallel, resultsCap, mainPc, spawned,
                 closerPc, attempt, fd, off, hst, calls, acq, sem, results,
                 closed, wg, completed, mu, successful, failed, recv,
                 cancelled, tokens, window, ages, fs, data,
                 setupVars, nameVars, poolVars, webVars, extVars>>

\* Send as a non-blocking send would do it: a result that finds the channel
\* full is dropped.
SendLossy(i) ==
  /\ pc[i] = "send"
  /\ ~closed
  /\ results' = IF Len(results) < resultsCap THEN Append(results, i)
                ELSE results
  /\ pc' = [pc EXCEPT ![i] = "lock"]
  /\ UNCHANGED <<urls, maxRetries, maxParallel, resultsCap, mainPc, spawned,
                 closerPc, attempt, timer, fd, off, hst, result, calls, acq,
                 lastErr, sem, closed, wg, completed, mu, successful, failed,
                 recv, cancelled, tokens, window, ages, fs, data,
                 variantVars>>

\* downloader.results <- result (main.go:221)
Send(i) ==
  /\ pc[i] = "send"
  /\ ~closed
  /\ Len(results) < resultsCap
  /\ results' = Append(results, i)
  /\ pc' = [pc EXCEPT ![i] = "lock"]
  /\ UNCHANGED <<urls, maxRetries, maxParallel, resultsCap, mainPc, spawned,
                 closerPc, attempt, timer, fd, off, hst, result, calls, acq,
                 lastErr, sem, closed, wg, completed, mu, successful, failed,
                 recv, cancelled, tokens, window, ages, fs, data,
                 variantVars>>

\* ProgressLock without the mutex.
ProgressIncrUnlocked(i) ==
  /\ pc[i] = "lock"
  /\ completed' = completed + 1
  /\ pc' = [pc EXCEPT ![i] = "unlock"]
  /\ UNCHANGED <<urls, maxRetries, maxParallel, resultsCap, mainPc, spawned,
                 closerPc, attempt, timer, fd, off, hst, result, calls, acq,
                 lastErr, sem, results, closed, wg, mu, successful, failed,
                 recv, cancelled, tokens, window, ages, fs, data, variantVars>>

\* progress.mu.Lock(), completed++ and the Printf that reads it
\* (main.go:223-225)
ProgressLock(i) ==
  /\ pc[i] = "lock"
  /\ mu = 0
  /\ mu' = i
  /\ completed' = completed + 1
  /\ pc' = [pc EXCEPT ![i] = "unlock"]
  /\ UNCHANGED <<urls, maxRetries, maxParallel, resultsCap, mainPc, spawned,
                 closerPc, attempt, timer, fd, off, hst, result, calls, acq,
                 lastErr, sem, results, closed, wg, successful, failed, recv,
                 cancelled, tokens, window, ages, fs, data,
                 variantVars>>

\* Finish without the deferred <-semaphore.
FinishKeepsSlot(i) ==
  /\ pc[i] = "unlock"
  /\ mu' = 0
  /\ wg' = wg - 1
  /\ pc' = [pc EXCEPT ![i] = "exit"]
  /\ UNCHANGED <<urls, maxRetries, maxParallel, resultsCap, mainPc, spawned,
                 closerPc, attempt, timer, fd, off, hst, result, calls, acq,
                 lastErr, sem, results, closed, completed, successful, failed,
                 recv, cancelled, tokens, window, ages, fs, data,
                 variantVars>>

\* progress.mu.Unlock(), then the deferred calls: <-semaphore and wg.Done()
\* (main.go:226, 218, 216)
Finish(i) ==
  /\ pc[i] = "unlock"
  /\ mu' = 0
  /\ sem' = sem - 1
  /\ wg' = wg - 1
  /\ pc' = [pc EXCEPT ![i] = "exit"]
  /\ UNCHANGED <<urls, maxRetries, maxParallel, resultsCap, mainPc, spawned,
                 closerPc, attempt, timer, fd, off, hst, result, calls, acq,
                 lastErr, results, closed, completed, successful, failed, recv,
                 cancelled, tokens, window, ages, fs, data,
                 variantVars>>

Worker(i) ==
  \/ Acquire(i)
  \/ LimiterWaitOk(i)
  \/ LimiterWaitErr(i)
  \/ TryDownloadErr(i)
  \/ TryDownloadOpen(i)
  \/ CopyChunk(i)
  \/ CopyErr(i)
  \/ CopyDone(i)
  \/ BackoffDone(i)
  \/ BackoffCancelled(i)
  \/ Send(i)
  \/ ProgressLock(i)
  \/ Finish(i)

Next ==
  \/ Spawn
  \/ StartCollect
  \/ CloseResults
  \/ Collect
  \/ Summary
  \/ MainReturn
  \/ Cancel
  \/ Tick
  \/ \E i \in G : Worker(i)

Spec == Init /\ [][Next]_vars
SpecRetry == InitRetry /\ [][Next]_vars
SpecPair == InitPair /\ [][Next]_vars
SpecPool == InitPool /\ [][Next]_vars

\* The scheduling of a batch. The Go scheduler runs every goroutine that can
\* take a step; a goroutine blocked at a channel send or at a mutex is
\* queued and served in its turn, and the limiter hands every waiter a
\* reservation, so a step that can be taken again and again is taken. Time
\* passes. Nothing obliges the context to be cancelled.
Fairness ==
  /\ WF_vars(Spawn \/ StartCollect \/ Collect \/ Summary \/ MainReturn)
  /\ WF_vars(CloseResults)
  /\ WF_vars(Tick)
  /\ \A i \in 1..MaxURLs : SF_vars(i \in G /\ Worker(i))

\* What main.go itself does with a batch: its context is cancelled by the
\* deferred cancel() of main alone (main.go:186-187).
NextMain ==
  \/ Spawn
  \/ StartCollect
  \/ CloseResults
  \/ Collect
  \/ Summary
  \/ MainReturn
  \/ Tick
  \/ \E i \in G : Worker(i)

\* Two URLs for a semaphore of one slot and a results channel of one place:
\* more URLs than either, with and without a retry.
InitLive ==
  /\ VariantsIdle
  /\ \E r \in 0..MaxBatchRetries :
       InitBatchOf([urls |-> << <<"h", "/", "b">>, <<"g", "/", "a">> >>,
                    maxRetries |-> r, window |-> 0],
                   [f \in DestNames |-> 0], [k \in InodeIds |-> <<>>], 1)

\* That batch, fairly scheduled.
SpecLive == InitLive /\ [][NextMain]_vars /\ Fairness

\* The inodes of the files found in the output directory: what an earlier run
\* of the batch wrote, and a longer file of another origin. No attempt of a
\* batch of one URL creates them.
EarlierInode == MaxURLs * (MaxRetries + 1) - 1
ForeignInode == MaxURLs * (MaxRetries + 1)

\* The batch of one URL is run in a directory where its destination is
\* absent (no earlier run, or it failed), holds the body an earlier run
\* wrote, or holds the other file.
InitRerun ==
  /\ VariantsIdle
  /\ \E b \in RetryBatches, old \in {0, EarlierInode, ForeignInode} :
       InitBatchIn(b,
         [f \in DestNames |-> IF f = DestName(b.urls[1]) THEN old ELSE 0],
         [k \in InodeIds |->
            IF k # old THEN <<>>
            ELSE IF k = EarlierInode THEN ServerBody(b.urls[1])
            ELSE <<9, 9, 9>>])

SpecRerun == InitRerun /\ [][Next]_vars

\* A single URL with every maxRetries NewDownloader accepts: it takes any
\* int and stores it unchecked (main.go:47-64), -1 standing for the negative
\* ones.
InitAnyRetries ==
  /\ VariantsIdle
  /\ \E r \in -1..MaxRetries :
       InitBatch([urls |-> << <<"h", "/", "a">> >>, maxRetries |-> r,
                  window |-> MaxWindow])

SpecAnyRetries == InitAnyRetries /\ [][Next]_vars

\* ===================================================================
\* The start of main
\* ===================================================================
\* Failing to create the output directory (main.go:50-52).
MkdirError == [ptr |-> "nil", err |-> "mkdir"]

\* What readURLs can return for the URL file: the lists of one URL, and the
\* empty list of a file without URLs.
SetupBatches ==
  RetryBatches \cup {[urls |-> <<>>, maxRetries |-> r, window |-> 0] :
                       r \in 0..MaxRetries}

\* main is entered (main.go:175-187): there is no Downloader and no batch
\* yet; the limiter will start with its one token.
InitSetup ==
  /\ VariantsIdle
  /\ urls = <<>>
  /\ maxRetries = 0
  /\ maxParallel = SemSlots
  /\ resultsCap = ChanCap
  /\ mainPc = "init"
  /\ spawned = 0
  /\ closerPc = "none"
  /\ pc = <<>>
  /\ attempt = <<>>
  /\ timer = <<>>
  /\ fd = <<>>
  /\ off = <<>>
  /\ hst = <<>>
  /\ result = <<>>
  /\ calls = <<>>
  /\ acq = <<>>
  /\ lastErr = <<>>
  /\ sem = 0
  /\ results = <<>>
  /\ closed = FALSE
  /\ wg = 0
  /\ completed = 0
  /\ mu = 0
  /\ successful = 0
  /\ failed = 0
  /\ recv = <<>>
  /\ cancelled = FALSE
  /\ tokens = 1
  /\ window = 0
  /\ ages = <<>>
  /\ fs = [f \in DestNames |-> 0]
  /\ data = [k \in InodeIds |-> <<>>]
  /\ downloader = [ptr |-> "nil", err |-> "nil"]
  /\ exitCode = -1
  /\ status = <<>>

\* NewDownloader(outputDir, rateLimit, maxRetries) and the test of its error
\* (main.go:190-194, 48-64): os.MkdirAll fails and main exits with status 1,
\* or the Downloader is returned.
NewDownloader ==
  /\ mainPc = "init"
  /\ \/ /\ downloader' = MkdirError
        /\ exitCode' = 1
        /\ mainPc' = "exited"
        /\ UNCHANGED maxRetries
     \/ /\ downloader' = DownloaderOk
        /\ \E r \in 0..MaxRetries : maxRetries' = r
        /\ mainPc' = "read"
        /\ UNCHANGED exitCode
  /\ UNCHANGED <<urls, maxParallel, resultsCap, spawned, closerPc, pc, attempt,
                 timer, fd, off, hst, result, calls, acq, lastErr, sem,
                 results, closed, wg, completed, mu, successful, failed, recv,
                 cancelled, tokens, window, ages, fs, data, nameVars, poolVars,
                 respVars, webVars, extVars>>

\* The batch b has been read: the state of InitBatch(b) as the next state.
BeginBatch(b) ==
  /\ urls' = b.urls
  /\ maxRetries' = b.maxRetries
  /\ maxParallel' = SemSlots
  /\ resultsCap' = ChanCap
  /\ spawned' = 0
  /\ closerPc' = "none"
  /\ pc' = [i \in 1..Len(b.urls) |-> "idle"]
  /\ attempt' = [i \in 1..Len(b.urls) |-> 0]
  /\ timer' = [i \in 1..Len(b.urls) |-> 0]
  /\ fd' = [i \in 1..Len(b.urls) |-> 0]
  /\ off' = [i \in 1..Len(b.urls) |-> 0]
  /\ hst' = [i \in 1..Len(b.urls) |-> HashSeed]
  /\ result' = [i \in 1..Len(b.urls) |-> ZeroResult]
  /\ calls' = [i \in 1..Len(b.urls) |-> 0]
  /\ acq' = [i \in 1..Len(b.urls) |-> 0]
  /\ lastErr' = [i \in 1..Len(b.urls) |-> "nil"]
  /\ sem' = 0
  /\ results' = <<>>
  /\ closed' = FALSE
  /\ wg' = 0
  /\ completed' = 0
  /\ mu' = 0
  /\ successful' = 0
  /\ failed' = 0
  /\ recv' = [i \in 1..Len(b.urls) |-> 0]
  /\ cancelled' = FALSE
  /\ tokens' = 1
  /\ window' = b.window
  /\ ages' = <<>>
  /\ fs' = [f \in DestNames |-> 0]
  /\ data' = [k \in InodeIds |-> <<>>]
  /\ status' = [i \in 1..Len(b.urls) |-> 0]

\* readURLs without the test for the empty list.
ReadURLsNoEmptyTest ==
  /\ mainPc = "read"
  /\ \E b \in SetupBatches : b.maxRetries = maxRetries /\ BeginBatch(b)
  /\ mainPc' = "spawn"
  /\ UNCHANGED <<setupVars, nameVars, poolVars, webVars, extVars>>

\* readURLs(urlFile) and the tests of main (main.go:197-211): an error exits
\* with status 1, an empty list makes main return (the deferred cancel runs),
\* any other list becomes the batch.
ReadURLs ==
  /\ mainPc = "read"
  /\ \/ /\ exitCode' = 1
        /\ mainPc' = "exited"
        /\ UNCHANGED <<urls, maxRetries, maxParallel, resultsCap, spawned,
                       closerPc, pc, attempt, timer, fd, off, hst, result,
                       calls, acq, lastErr, sem, results, closed, wg,
                       completed, mu, successful, failed, recv, cancelled,
                       tokens, window, ages, fs, data, status,
                       downloader>>
     \/ /\ mainPc' = "returned"
        /\ cancelled' = TRUE
        /\ UNCHANGED <<urls, maxRetries, maxParallel, resultsCap, spawned,
                       closerPc, pc, attempt, timer, fd, off, hst, result,
                       calls, acq, lastErr, sem, results, closed, wg,
                       completed, mu, successful, failed, recv, tokens,
                       window, ages, fs, data, status, setupVars>>
     \/ \E b \in SetupBatches :
          /\ b.urls # <<>>
          /\ b.maxRetries = maxRetries
          /\ BeginBatch(b)
          /\ mainPc' = "spawn"
          /\ UNCHANGED setupVars
  /\ UNCHANGED <<nameVars, poolVars, webVars, extVars>>

NextSetup == NewDownloader \/ ReadURLs \/ Next

SpecSetup == InitSetup /\ [][NextSetup]_vars

\* ===================================================================
\* The destination of one URL
\* ===================================================================
\* Longest string passed in.
MaxLen == 3

\* The strings passed in, of the nine unsafe characters, a letter, the dot
\* and the replacement character itself.
Strings ==
  UNION { [1..n -> UnsafeChars \cup {"a", ".", "_"}] : n \in 0..MaxLen }

\* The test of main.go:73.
FallbackTaken(url) ==
  LET filename == pathBase(url)
  IN filename = <<>> \/ filename = <<"/">> \/ filename = <<".">>

\* The batch of main.go is at rest while one string is worked on.
MainAtRest == \E b \in RetryBatches : b.maxRetries = 0 /\ InitBatch(b)

InitName ==
  /\ MainAtRest
  /\ PoolIdle
  /\ WebIdle
  /\ ExtIdle
  /\ arg \in Strings
  /\ safe = <<>>
  /\ dest = <<>>
  /\ usedFallback = FALSE
  /\ namePc = "start"

\* sanitizeFilename(arg) is called.
CallSanitize ==
  /\ namePc = "start"
  /\ safe' = sanitizeFilename(arg)
  /\ namePc' = "sanitized"
  /\ UNCHANGED <<mainVars, setupVars, poolVars, arg, dest, usedFallback,
                 webVars, extVars>>

\* downloadFile(ctx, arg) computes result.Filename (main.go:72-76).
ComputeFilename ==
  /\ namePc = "sanitized"
  /\ usedFallback' = FallbackTaken(arg)
  /\ dest' = filepathJoin(outputDir, DestName(arg))
  /\ namePc' = "named"
  /\ UNCHANGED <<mainVars, setupVars, poolVars, arg, safe, webVars, extVars>>

NextName == CallSanitize \/ ComputeFilename

SpecName == InitName /\ [][NextName]_vars

\* ===================================================================
\* The worker pools: processURLs, its workers and their downloads
\* ===================================================================
\* The URL lists given to the command-line processURLs: none, one, two and
\* more URLs than workers.
CliBatches == {<<>>} \cup { b.urls : b \in Batches }

\* The URL lists of the POST requests: a magnet link and a file, and one file.
WebBatches == { << Magnet, <<"h", "/", "b">> >>, << <<"g", "/", "a">> >> }

\* processURLs is entered with the URL list b (part_002:40-42,
\* part_005:146-148): urlChan has room for every URL.
NewProc(b) ==
  [NoProc EXCEPT !.pc = "start", !.urls = b,
                 !.taken = [k \in 1..Len(b) |-> 0]]

\* The command-line main calls processURLs once (part_002:99).
InitCLI ==
  /\ MainAtRest
  /\ NameIdle
  /\ WebIdle
  /\ ExtIdle
  /\ variant = "cli"
  /\ \E b \in CliBatches :
       proc = [r \in 1..MaxRequests |-> IF r = 1 THEN NewProc(b) ELSE NoProc]
  /\ wk = [r \in 1..MaxRequests |-> [w \in 1..workers |-> NoWorker]]
  /\ disk = OldDisk

\* The web server is listening (part_005:51-74).
InitWeb ==
  /\ MainAtRest
  /\ NameIdle
  /\ WebIdle
  /\ ExtIdle
  /\ variant = "web"
  /\ proc = [r \in 1..MaxRequests |-> NoProc]
  /\ wk = [r \in 1..MaxRequests |-> [w \in 1..workers |-> NoWorker]]
  /\ disk = OldDisk

\* handleDownloadRequest accepts a POST with a non-empty URL list and starts
\* processURLs in a goroutine of its own (part_005:76-109). The requests it
\* refuses (undecodable body, no URL, directory not created) change nothing.
HandleDownloadRequest ==
  /\ variant = "web"
  /\ \E r \in 1..MaxRequests :
       /\ proc[r].pc = "idle"
       /\ \A q \in 1..(r - 1) : proc[q].pc # "idle"
       /\ \E b \in WebBatches : proc' = [proc EXCEPT ![r] = NewProc(b)]
  /\ UNCHANGED <<mainVars, setupVars, nameVars, variant, wk, disk, webVars,
                 extVars>>

\* One iteration of the loop that starts the workers: wg.Add(1) and the go
\* statement (part_002:45-57); after the last one the feeding loop begins.
StartWorker(r) ==
  /\ proc[r].pc = "start"
  /\ proc[r].started < workers
  /\ proc' = [proc EXCEPT ![r].started = @ + 1, ![r].wg = @ + 1,
                          ![r].pc = IF proc[r].started + 1 = workers
                                    THEN "feed" ELSE "start"]
  /\ wk' = [wk EXCEPT ![r][proc[r].started + 1].pc = "range"]
  /\ UNCHANGED <<mainVars, setupVars, nameVars, variant, disk, webVars, extVars>>

\* urlChan <- url (part_002:60-62): blocks while the channel is full.
Feed(r) ==
  /\ proc[r].pc = "feed"
  /\ proc[r].fed < Len(proc[r].urls)
  /\ Len(proc[r].urlChan) < Len(proc[r].urls)
  /\ proc' = [proc EXCEPT ![r].urlChan = Append(@, proc[r].fed + 1),
                          ![r].fed = @ + 1]
  /\ UNCHANGED <<mainVars, setupVars, nameVars, variant, wk, disk, webVars,
                 extVars>>

\* close(urlChan) after the loop (part_002:63).
CloseChan(r) ==
  /\ proc[r].pc = "feed"
  /\ proc[r].fed = Len(proc[r].urls)
  /\ proc' = [proc EXCEPT ![r].closed = TRUE, ![r].pc = "wait"]
  /\ UNCHANGED <<mainVars, setupVars, nameVars, variant, wk, disk, webVars,
                 extVars>>

\* wg.Wait() returns and so does processURLs (part_002:65-66).
WaitReturn(r) ==
  /\ proc[r].pc = "wait"
  /\ proc[r].wg = 0
  /\ proc' = [proc EXCEPT ![r].pc = "returned"]
  /\ UNCHANGED <<mainVars, setupVars, nameVars, variant, wk, disk, webVars,
                 extVars>>

\* The URL a worker has in hand, its body and the file it is written to.
UrlOf(r, w) == proc[r].urls[wk[r][w].url]

\* OutputPath of the URLs of the pool, computed once for each variant.
PoolPaths ==
  [v \in {"cli", "web"} |-> [u \in URLPool |-> OutputPath(v, u)]]

PathOf(r, w) ==
  IF variant \in DOMAIN PoolPaths /\ UrlOf(r, w) \in URLPool
  THEN PoolPaths[variant][UrlOf(r, w)]
  ELSE OutputPath(variant, UrlOf(r, w))

\* Receive that leaves the URL in the channel.
ReceiveKeeps(r, w) ==
  /\ wk[r][w].pc = "range"
  /\ proc[r].urlChan # <<>>
  /\ LET k == Head(proc[r].urlChan) IN
       /\ proc' = [proc EXCEPT ![r].taken[k] = @ + 1]
       /\ wk' = [wk EXCEPT ![r][w].url = k, ![r][w].off = 0,
                           ![r][w].pc = "get"]
  /\ UNCHANGED <<mainVars, setupVars, nameVars, variant, disk, webVars, extVars>>

\* for url := range urlChan receives a URL and the worker calls the download
\* routine with it (part_002:49-50): download, or in the web server
\* downloadTorrent or downloadFile (part_005:175-184).
Receive(r, w) ==
  /\ wk[r][w].pc = "range"
  /\ proc[r].urlChan # <<>>
  /\ LET k == Head(proc[r].urlChan) IN
       /\ proc' = [proc EXCEPT ![r].urlChan = Tail(@), ![r].taken[k] = @ + 1]
       /\ wk' = [wk EXCEPT ![r][w].url = k, ![r][w].off = 0,
                           ![r][w].pc =
                             IF variant = "cli" THEN "get"
                             ELSE IF IsTorrent(proc[r].urls[k]) THEN "torrent"
                             ELSE "create"]
  /\ UNCHANGED <<mainVars, setupVars, nameVars, variant, disk, webVars, extVars>>

\* The range loop ends on the closed, drained channel: wg.Done()
\* (part_002:48-56).
WorkerExit(r, w) ==
  /\ wk[r][w].pc = "range"
  /\ proc[r].urlChan = <<>>
  /\ proc[r].closed
  /\ wk' = [wk EXCEPT ![r][w].pc = "exit"]
  /\ proc' = [proc EXCEPT ![r].wg = @ - 1]
  /\ UNCHANGED <<mainVars, setupVars, nameVars, variant, disk, webVars, extVars>>

\* The download routine returns e to the worker, which logs it and goes on
\* with the range loop (part_002:50-54).
Return(r, w, e) ==
  wk' = [wk EXCEPT ![r][w] = [pc |-> "range", url |-> 0, off |-> 0, err |-> e]]

\* Get with the file created before the request is made.
GetCreatesFirst(r, w) ==
  /\ wk[r][w].pc = "get"
  /\ \/ /\ \E e \in {"request", "status"} : Return(r, w, e)
        /\ disk' = [disk EXCEPT ![PathOf(r, w)] =
                      [exists |-> TRUE, content |-> <<>>]]
     \/ /\ wk' = [wk EXCEPT ![r][w].pc = "create"]
        /\ UNCHANGED disk
  /\ UNCHANGED <<mainVars, setupVars, nameVars, variant, proc, webVars, extVars>>

\* http.Get(url) and the status test (part_002:19-27, part_005:243-250): the
\* request fails, the status is not 200, or the download goes on, with
\* os.Create in download, with the copy in the web server's downloadFile.
Get(r, w) ==
  /\ wk[r][w].pc = "get"
  /\ \/ \E e \in {"request", "status"} : Return(r, w, e)
     \/ wk' = [wk EXCEPT ![r][w].pc =
                 IF variant = "cli" THEN "create" ELSE "copy"]
  /\ UNCHANGED <<mainVars, setupVars, nameVars, variant, proc, disk, webVars,
                 extVars>>

\* CreateFile opening the file without truncating it.
CreateFileKeepsContent(r, w) ==
  /\ wk[r][w].pc = "create"
  /\ \/ /\ Return(r, w, "create")
        /\ UNCHANGED disk
     \/ /\ disk' = [disk EXCEPT ![PathOf(r, w)].exists = TRUE]
        /\ wk' = [wk EXCEPT ![r][w].pc = "copy"]
  /\ UNCHANGED <<mainVars, setupVars, nameVars, variant, proc, webVars, extVars>>

\* os.Create (part_002:29-33, part_005:236-240): it fails, or the path names
\* an empty file; download goes on with the copy, the web server's
\* downloadFile with the request.
CreateFile(r, w) ==
  /\ wk[r][w].pc = "create"
  /\ \/ /\ Return(r, w, "create")
        /\ UNCHANGED disk
     \/ /\ disk' = [disk EXCEPT ![PathOf(r, w)] =
                      [exists |-> TRUE, content |-> <<>>]]
        /\ wk' = [wk EXCEPT ![r][w].pc =
                    IF variant = "cli" THEN "copy" ELSE "get"]
  /\ UNCHANGED <<mainVars, setupVars, nameVars, variant, proc, webVars, extVars>>

\* io.Copy writes one more byte of the body at the file's offset
\* (part_002:36, part_005:276).
CopyByte(r, w) ==
  /\ wk[r][w].pc = "copy"
  /\ wk[r][w].off < Len(ServerBody(UrlOf(r, w)))
  /\ disk' = [disk EXCEPT ![PathOf(r, w)].content =
                WriteAt(@, wk[r][w].off,
                        ServerBody(UrlOf(r, w))[wk[r][w].off + 1])]
  /\ wk' = [wk EXCEPT ![r][w].off = @ + 1]
  /\ UNCHANGED <<mainVars, setupVars, nameVars, variant, proc, webVars, extVars>>

\* io.Copy returns (part_002:36-37, part_005:276-281): an error, or nil at
\* the end of the body. The file stays as it is.
CopyReturn(r, w) ==
  /\ wk[r][w].pc = "copy"
  /\ \/ Return(r, w, "copy")
     \/ /\ wk[r][w].off = Len(ServerBody(UrlOf(r, w)))
        /\ Return(r, w, "nil")
  /\ UNCHANGED <<mainVars, setupVars, nameVars, variant, proc, disk, webVars,
                 extVars>>

\* downloadTorrent returns: the torrent is complete, or an error
\* (part_005:284-359). The torrent client's own files are not modelled.
TorrentReturn(r, w) ==
  /\ wk[r][w].pc = "torrent"
  /\ \E e \in {"nil", "torrent"} : Return(r, w, e)
  /\ UNCHANGED <<mainVars, setupVars, nameVars, variant, proc, disk, webVars,
                 extVars>>

\* What processURLs and its workers do in every variant.
PoolStep(r) ==
  \/ StartWorker(r)
  \/ Feed(r)
  \/ CloseChan(r)
  \/ WaitReturn(r)
  \/ \E w \in 1..workers :
       \/ Receive(r, w)
       \/ WorkerExit(r, w)
       \/ Get(r, w)
       \/ CreateFile(r, w)
       \/ CopyByte(r, w)
       \/ CopyReturn(r, w)

NextCLI == PoolStep(1)

NextWeb ==
  \/ HandleDownloadRequest
  \/ \E r \in 1..MaxRequests :
       \/ PoolStep(r)
       \/ \E w \in 1..workers : TorrentReturn(r, w)

SpecCLI == InitCLI /\ [][NextCLI]_vars
SpecWeb == InitWeb /\ [][NextWeb]_vars

\* ===================================================================
\* The web server's WebSocket clients
\* ===================================================================
\* A goroutine is named <<"ws", c>> when it runs handleWebSocket for
\* connection c, <<"bc", b>> when it runs the b-th broadcastStatus, with the
\* updateDownloadStatus that called it, and <<"gs", g>> when it runs
\* handleGetAllStatus.

\* handleWebSocket is called and upgrader.Upgrade returns the connection, or
\* an error with which the handler returns (part_005:119-124).
Upgrade(c) ==
  /\ ws[c] = "none"
  /\ \A d \in 1..(c - 1) : ws[d] # "none"
  /\ \E p \in {"register", "returned"} : ws' = [ws EXCEPT ![c] = p]
  /\ UNCHANGED <<mainVars, setupVars, nameVars, poolVars, clients, clientsMux,
                 bc, writing, rd, sub, age, after, extVars>>

\* clientsMux.Lock() and clients[conn] = true (part_005:126-127).
Register(c) ==
  /\ ws[c] = "register"
  /\ clientsMux = <<>>
  /\ clientsMux' = <<"ws", c>>
  /\ clients' = clients \cup {c}
  /\ ws' = [ws EXCEPT ![c] = "registered"]
  /\ UNCHANGED <<mainVars, setupVars, nameVars, poolVars, bc, writing, rd,
                 sub, age, after, extVars>>

\* HandlerUnlock that keeps clientsMux over the marshalling of the status.
HandlerUnlockLate(c) ==
  /\ ws[c] \in {"registered", "deleted"}
  /\ clientsMux' = IF ws[c] = "registered" THEN clientsMux ELSE <<>>
  /\ ws' = [ws EXCEPT ![c] = IF ws[c] = "registered" THEN "marshal"
                             ELSE "returned"]
  /\ UNCHANGED <<mainVars, setupVars, nameVars, poolVars, clients, bc,
                 writing, rd, sub, age, after, extVars>>

\* clientsMux.Unlock() in handleWebSocket: after the registration the status
\* is marshalled for the first message (part_005:128-132), after the removal
\* the handler returns (part_005:140-141).
HandlerUnlock(c) ==
  /\ ws[c] \in {"registered", "deleted"}
  /\ clientsMux' = <<>>
  /\ ws' = [ws EXCEPT ![c] = IF ws[c] = "registered" THEN "marshal"
                             ELSE "returned"]
  /\ UNCHANGED <<mainVars, setupVars, nameVars, poolVars, clients, bc,
                 writing, rd, sub, age, after, extVars>>

\* downloadsMutex.Lock(), json.Marshal(activeDownloads) and
\* downloadsMutex.Unlock() in handleWebSocket (part_005:130-132).
HandlerMarshal(c) ==
  /\ \/ /\ ws[c] = "marshal"
        /\ downloadsMutex = <<>>
        /\ downloadsMutex' = <<"ws", c>>
        /\ ws' = [ws EXCEPT ![c] = "marshalling"]
     \/ /\ ws[c] = "marshalling"
        /\ downloadsMutex' = <<>>
        /\ ws' = [ws EXCEPT ![c] = "write"]
  /\ UNCHANGED <<mainVars, setupVars, nameVars, poolVars, clients, clientsMux,
                 bc, writing, rd, sub, age, after, readVars, getStatus,
                 statusVars, sftpVars>>

\* conn.WriteMessage(websocket.TextMessage, statusJSON) is entered
\* (part_005:133); no lock is taken for it.
HandlerWriteBegin(c) ==
  /\ ws[c] = "write"
  /\ writing' = [writing EXCEPT ![c] = @ \cup {<<"ws", c>>}]
  /\ ws' = [ws EXCEPT ![c] = "writing"]
  /\ UNCHANGED <<mainVars, setupVars, nameVars, poolVars, clients, clientsMux,
                 bc, rd, sub, age, after, extVars>>

\* conn.WriteMessage returns; its error is not looked at and the read loop
\* begins (part_005:133-136).
HandlerWriteEnd(c) ==
  /\ ws[c] = "writing"
  /\ writing' = [writing EXCEPT ![c] = @ \ {<<"ws", c>>}]
  /\ ws' = [ws EXCEPT ![c] = "read"]
  /\ UNCHANGED <<mainVars, setupVars, nameVars, poolVars, clients, clientsMux,
                 bc, rd, sub, age, after, extVars>>

\* conn.ReadMessage returns an error (the peer has gone or the connection was
\* closed): clientsMux.Lock() and delete(clients, conn) (part_005:136-139).
HandlerReadError(c) ==
  /\ ws[c] = "read"
  /\ clientsMux = <<>>
  /\ clientsMux' = <<"ws", c>>
  /\ clients' = clients \ {c}
  /\ ws' = [ws EXCEPT ![c] = "deleted"]
  /\ UNCHANGED <<mainVars, setupVars, nameVars, poolVars, bc, writing, rd,
                 sub, age, after, extVars>>

\* updateDownloadStatus changes an entry between downloadsMutex.Lock() and
\* downloadsMutex.Unlock(), and calls broadcastStatus (part_005:204-214).
UpdateStatus(b) ==
  /\ \/ /\ bc[b].pc = "none"
        /\ downloadsMutex = <<>>
        /\ downloadsMutex' = <<"bc", b>>
        /\ bc' = [bc EXCEPT ![b].pc = "update"]
     \/ /\ bc[b].pc = "update"
        /\ downloadsMutex' = <<>>
        /\ bc' = [bc EXCEPT ![b].pc = "broadcast"]
  /\ UNCHANGED <<mainVars, setupVars, nameVars, poolVars, clients, clientsMux,
                 ws, writing, rd, sub, age, after, readVars, getStatus,
                 statusVars, sftpVars>>

\* broadcastStatus, called by updateDownloadStatus or by processURLs itself
\* (part_005:166): downloadsMutex.Lock(), json.Marshal(activeDownloads) and
\* downloadsMutex.Unlock() (part_005:217-219).
BroadcastMarshal(b) ==
  /\ \/ /\ bc[b].pc \in {"none", "broadcast"}
        /\ downloadsMutex = <<>>
        /\ downloadsMutex' = <<"bc", b>>
        /\ bc' = [bc EXCEPT ![b].pc = "marshal"]
     \/ /\ bc[b].pc = "marshal"
        /\ downloadsMutex' = <<>>
        /\ bc' = [bc EXCEPT ![b].pc = "marshalled"]
  /\ UNCHANGED <<mainVars, setupVars, nameVars, poolVars, clients, clientsMux,
                 ws, writing, rd, sub, age, after, readVars, getStatus,
                 statusVars, sftpVars>>

\* handleGetAllStatus: downloadsMutex.Lock(), the status is encoded into the
\* response, and the deferred downloadsMutex.Unlock() (part_005:111-117).
GetAllStatus(g) ==
  /\ \/ /\ getStatus[g] = "none"
        /\ downloadsMutex = <<>>
        /\ downloadsMutex' = <<"gs", g>>
        /\ getStatus' = [getStatus EXCEPT ![g] = "encode"]
     \/ /\ getStatus[g] = "encode"
        /\ downloadsMutex' = <<>>
        /\ getStatus' = [getStatus EXCEPT ![g] = "returned"]
  /\ UNCHANGED <<mainVars, setupVars, nameVars, poolVars, webVars, readVars,
                 statusVars, sftpVars>>

\* clientsMux.Lock() in broadcastStatus (part_005:221). The range loop visits
\* the clients of that moment.
BroadcastLock(b) ==
  /\ bc[b].pc = "marshalled"
  /\ clientsMux = <<>>
  /\ clientsMux' = <<"bc", b>>
  /\ bc' = [bc EXCEPT ![b] = [pc |-> "range", todo |-> clients, cur |-> 0]]
  /\ UNCHANGED <<mainVars, setupVars, nameVars, poolVars, clients, ws,
                 writing, rd, sub, age, after, extVars>>

\* client.WriteMessage is entered for the next client of the range loop
\* (part_005:222-223).
BroadcastWriteBegin(b) ==
  /\ bc[b].pc = "range"
  /\ \E c \in bc[b].todo :
       /\ writing' = [writing EXCEPT ![c] = @ \cup {<<"bc", b>>}]
       /\ bc' = [bc EXCEPT ![b].pc = "writing", ![b].cur = c,
                           ![b].todo = @ \ {c}]
  /\ UNCHANGED <<mainVars, setupVars, nameVars, poolVars, clients, clientsMux,
                 ws, rd, sub, age, after, extVars>>

\* client.WriteMessage returns: nil, or an error after which the client is
\* closed and deleted from the map (part_005:223-226).
BroadcastWriteEnd(b) ==
  /\ bc[b].pc = "writing"
  /\ writing' = [writing EXCEPT ![bc[b].cur] = @ \ {<<"bc", b>>}]
  /\ bc' = [bc EXCEPT ![b].pc = "range", ![b].cur = 0]
  /\ \/ clients' = clients
     \/ clients' = clients \ {bc[b].cur}
  /\ UNCHANGED <<mainVars, setupVars, nameVars, poolVars, clientsMux, ws, rd,
                 sub, age, after, extVars>>

\* The range loop is over: clientsMux.Unlock() (part_005:228).
BroadcastUnlock(b) ==
  /\ bc[b].pc = "range"
  /\ bc[b].todo = {}
  /\ clientsMux' = <<>>
  /\ bc' = [bc EXCEPT ![b].pc = "returned"]
  /\ UNCHANGED <<mainVars, setupVars, nameVars, poolVars, clients, ws,
                 writing, rd, sub, age, after, extVars>>

NextSocket ==
  \/ \E c \in 1..MaxConns :
       \/ Upgrade(c)
       \/ Register(c)
       \/ HandlerUnlock(c)
       \/ HandlerMarshal(c)
       \/ HandlerWriteBegin(c)
       \/ HandlerWriteEnd(c)
       \/ HandlerReadError(c)
  \/ \E b \in 1..MaxBroadcasts :
       \/ UpdateStatus(b)
       \/ BroadcastMarshal(b)
       \/ BroadcastLock(b)
       \/ BroadcastWriteBegin(b)
       \/ BroadcastWriteEnd(b)
       \/ BroadcastUnlock(b)
  \/ \E g \in 1..MaxStatusRequests : GetAllStatus(g)

SpecSocket == InitWeb /\ [][NextSocket]_vars

\* ===================================================================
\* The web server's downloadTorrent
\* ===================================================================
\* One POST request has been accepted and processURLs is entered with its
\* URLs (part_005:105-108): a magnet link, alone or with a file. age[w] counts
\* the hours worker w has been inside downloadTorrent, after[w] the hours
\* since its time.After started, -1 before that.
InitTorrent ==
  /\ MainAtRest
  /\ NameIdle
  /\ WebIdle
  /\ ExtIdle
  /\ variant = "web"
  /\ \E b \in {<<Magnet>>, <<Magnet, <<"h", "/", "b">> >>} :
       proc = [r \in 1..MaxRequests |-> IF r = 1 THEN NewProc(b) ELSE NoProc]
  /\ wk = [r \in 1..MaxRequests |-> [w \in 1..workers |-> NoWorker]]
  /\ disk = OldDisk

\* Worker w is inside downloadTorrent.
InTorrent(w) == wk[1][w].pc \in {"torrent", "gotinfo", "select"}

\* torrent.NewClient and client.AddMagnet (part_005:285-326): one of them
\* fails and downloadTorrent returns the error, or the torrent is added and
\* the worker waits at <-t.GotInfo() (part_005:328).
AddTorrent(w) ==
  /\ wk[1][w].pc = "torrent"
  /\ \/ Return(1, w, "torrent") /\ age' = [age EXCEPT ![w] = 0]
     \/ wk' = [wk EXCEPT ![1][w].pc = "gotinfo"] /\ UNCHANGED age
  /\ UNCHANGED <<mainVars, setupVars, nameVars, variant, proc, disk, clients,
                 clientsMux, ws, bc, writing, rd, sub, after, extVars>>

\* The metadata has arrived: <-t.GotInfo() returns, t.DownloadAll(), the
\* monitor goroutine is started and the select begins, time.After(24 *
\* time.Hour) with it (part_005:328-358).
GotInfo(w) ==
  /\ wk[1][w].pc = "gotinfo"
  /\ wk' = [wk EXCEPT ![1][w].pc = "select"]
  /\ after' = [after EXCEPT ![w] = 0]
  /\ UNCHANGED <<mainVars, setupVars, nameVars, variant, proc, disk, clients,
                 clientsMux, ws, bc, writing, rd, sub, age, extVars>>

\* The monitor has seen every byte and closed done: case <-done returns nil
\* (part_005:333-355).
TorrentDone(w) ==
  /\ wk[1][w].pc = "select"
  /\ Return(1, w, "nil")
  /\ age' = [age EXCEPT ![w] = 0]
  /\ after' = [after EXCEPT ![w] = -1]
  /\ UNCHANGED <<mainVars, setupVars, nameVars, variant, proc, disk, clients,
                 clientsMux, ws, bc, writing, rd, sub, extVars>>

\* case <-time.After(24 * time.Hour): "download timed out"
\* (part_005:356-358).
TorrentTimeout(w) ==
  /\ wk[1][w].pc = "select"
  /\ after[w] >= TorrentHours
  /\ Return(1, w, "timeout")
  /\ age' = [age EXCEPT ![w] = 0]
  /\ after' = [after EXCEPT ![w] = -1]
  /\ UNCHANGED <<mainVars, setupVars, nameVars, variant, proc, disk, clients,
                 clientsMux, ws, bc, writing, rd, sub, extVars>>

\* An hour passes for the workers inside downloadTorrent. A select whose
\* timer has fired returns before the next hour; the clock is followed for
\* one hour past the limit.
Hour ==
  /\ \E w \in 1..workers : InTorrent(w)
  /\ \A w \in 1..workers :
       InTorrent(w) => age[w] <= TorrentHours /\ after[w] < TorrentHours
  /\ age' = [w \in 1..workers |-> IF InTorrent(w) THEN age[w] + 1 ELSE age[w]]
  /\ after' = [w \in 1..workers |->
                 IF after[w] >= 0 THEN after[w] + 1 ELSE after[w]]
  /\ UNCHANGED <<mainVars, setupVars, nameVars, poolVars, clients, clientsMux,
                 ws, bc, writing, rd, sub, extVars>>

NextTorrent ==
  \/ PoolStep(1)
  \/ \E w \in 1..workers :
       \/ AddTorrent(w)
       \/ GotInfo(w)
       \/ TorrentDone(w)
       \/ TorrentTimeout(w)
  \/ Hour

SpecTorrent == InitTorrent /\ [][NextTorrent]_vars

\* ===================================================================
\* The web server's downloadFile: the copy through progressReader
\* ===================================================================
\* The entry processURLs makes for a URL (part_005:156-162).
Queued ==
  [Status |-> "queued", Progress |-> 0, Completed |-> FALSE, Error |-> ""]

\* updateDownloadStatus that leaves the Completed field as it is.
updateStatusKeepsCompleted(ad, url, st, progress, done, errorMsg) ==
  IF url \in DOMAIN ad
  THEN [ad EXCEPT ![url] = [Status |-> st, Progress |-> progress,
                            Completed |-> ad[url].Completed,
                            Error |-> errorMsg]]
  ELSE ad

\* What updateDownloadStatus does to the map ad between
\* downloadsMutex.Lock() and downloadsMutex.Unlock() (part_005:205-212): the
\* entry of the URL, if there is one, gets the four values. The broadcast
\* that follows changes no entry.
updateDownloadStatus(ad, url, st, progress, done, errorMsg) ==
  IF url \in DOMAIN ad
  THEN [ad EXCEPT ![url] = [Status |-> st, Progress |-> progress,
                            Completed |-> done, Error |-> errorMsg]]
  ELSE ad

\* One POST request has been accepted and processURLs, entered with its URLs
\* (part_005:105-108), one file or two, has made their entries
\* (part_005:150-166). rd[w] is the place of worker w's io.Copy with the
\* result of its last Read; sub[u] the place of the goroutine that
\* downloadFile started for URL u of the list, which ranges over
\* progressChan[u], the channel that call made.
InitProgress ==
  /\ MainAtRest
  /\ NameIdle
  /\ WebIdle
  /\ ReadIdle
  /\ LockIdle
  /\ SftpIdle
  /\ variant = "web"
  /\ \E b \in {<< <<"h", "/", "a">> >>,
               << <<"h", "/", "a">>, <<"h", "/", "b">> >>} :
       /\ proc = [r \in 1..MaxRequests |->
                    IF r = 1 THEN NewProc(b) ELSE NoProc]
       /\ activeDownloads = [u \in { b[k] : k \in 1..Len(b) } |-> Queued]
  /\ reporting = [w \in 1..workers |-> 0]
  /\ progressChan = [u \in 1..MaxBatch |-> NoChan]
  /\ wk = [r \in 1..MaxRequests |-> [w \in 1..workers |-> NoWorker]]
  /\ disk = OldDisk

\* The worker has received a URL and calls updateDownloadStatus(url,
\* "downloading", 0, false, "") before the download (part_005:176).
ReportDownloading(w) ==
  /\ wk[1][w].pc \in {"create", "torrent"}
  /\ reporting[w] = 0
  /\ reporting' = [reporting EXCEPT ![w] = wk[1][w].url]
  /\ activeDownloads' =
       updateDownloadStatus(activeDownloads, UrlOf(1, w), "downloading", 0,
                            FALSE, "")
  /\ UNCHANGED <<mainVars, setupVars, nameVars, poolVars, webVars, readVars,
                 lockVars, progressChan, sftpVars>>

\* The download has returned and the worker reports the outcome
\* (part_005:186-192): "failed" with err.Error(), or "completed" with 100.
ReportOutcome(w) ==
  /\ wk[1][w].pc = "range"
  /\ reporting[w] # 0
  /\ reporting' = [reporting EXCEPT ![w] = 0]
  /\ activeDownloads' =
       IF wk[1][w].err = "nil"
       THEN updateDownloadStatus(activeDownloads, proc[1].urls[reporting[w]],
                                 "completed", 100, TRUE, "")
       ELSE updateDownloadStatus(activeDownloads, proc[1].urls[reporting[w]],
                                 "failed", 0, TRUE, wk[1][w].err)
  /\ UNCHANGED <<mainVars, setupVars, nameVars, poolVars, webVars, readVars,
                 lockVars, progressChan, sftpVars>>

\* fileSize := resp.ContentLength, the length of the body or -1 when the
\* response does not tell it. progressChan is made without a buffer, the
\* subscriber goroutine starts and io.Copy(file, reader) is entered
\* (part_005:252-276).
StartCopy(w) ==
  /\ wk[1][w].pc = "copy"
  /\ rd[w].pc = "none"
  /\ rd' = [rd EXCEPT ![w].pc = "read"]
  /\ sub' = [sub EXCEPT ![wk[1][w].url] = "recv"]
  /\ \E fileSize \in {Len(ServerBody(UrlOf(1, w))), -1} :
       progressChan' = [progressChan EXCEPT ![wk[1][w].url] =
                          [state |-> "open", closes |-> 0,
                           url |-> wk[1][w].url, value |-> 0,
                           size |-> fileSize]]
  /\ UNCHANGED <<mainVars, setupVars, nameVars, poolVars, clients, clientsMux,
                 ws, bc, writing, age, after, readVars, lockVars,
                 activeDownloads, reporting, sftpVars>>

\* progressReader.Read: pr.Reader.Read(p) returns the next byte of the body,
\* io.EOF at its end, or an error; pr.BytesRead += int64(n)
\* (part_005:367-369). The send on ProgressChan is next.
ReadBody(w) ==
  /\ rd[w].pc = "read"
  /\ \/ /\ wk[1][w].off < Len(ServerBody(UrlOf(1, w)))
        /\ rd' = [rd EXCEPT ![w] = [pc |-> "send", n |-> 1, err |-> "nil"]]
     \/ /\ wk[1][w].off = Len(ServerBody(UrlOf(1, w)))
        /\ rd' = [rd EXCEPT ![w] = [pc |-> "send", n |-> 0, err |-> "EOF"]]
     \/ rd' = [rd EXCEPT ![w] = [pc |-> "send", n |-> 0, err |-> "copy"]]
  /\ UNCHANGED <<mainVars, setupVars, nameVars, poolVars, clients, clientsMux,
                 ws, bc, writing, sub, age, after, extVars>>

\* pr.ProgressChan <- pr.BytesRead meets the subscriber's receive in
\* for bytesDownloaded := range progressChan: the channel has no buffer, so
\* the send completes only when the subscriber is at the receive
\* (part_005:254-256, 370-371). Read returns n and err.
Handoff(w) ==
  /\ rd[w].pc = "send"
  /\ sub[wk[1][w].url] = "recv"
  /\ progressChan[wk[1][w].url].state = "open"
  /\ rd' = [rd EXCEPT ![w].pc = "write"]
  /\ sub' = [sub EXCEPT ![wk[1][w].url] = "update"]
  /\ progressChan' = [progressChan EXCEPT ![wk[1][w].url].value =
                       wk[1][w].off + rd[w].n]
  /\ UNCHANGED <<mainVars, setupVars, nameVars, poolVars, clients, clientsMux,
                 ws, bc, writing, age, after, readVars, lockVars,
                 activeDownloads, reporting, sftpVars>>

\* io.Copy writes the n bytes Read returned to the file, and calls Read
\* again, or stops at io.EOF or the error (part_005:276).
CopyWrite(w) ==
  /\ rd[w].pc = "write"
  /\ IF rd[w].n > 0
     THEN /\ disk' = [disk EXCEPT ![PathOf(1, w)].content =
                        WriteAt(@, wk[1][w].off,
                                ServerBody(UrlOf(1, w))[wk[1][w].off + 1])]
          /\ wk' = [wk EXCEPT ![1][w].off = @ + 1]
     ELSE UNCHANGED <<wk, disk>>
  /\ rd' = [rd EXCEPT ![w].pc = IF rd[w].err = "nil" THEN "read" ELSE "close"]
  /\ UNCHANGED <<mainVars, setupVars, nameVars, variant, proc, clients,
                 clientsMux, ws, bc, writing, sub, age, after, extVars>>

\* downloadFile returning after io.Copy without close(progressChan).
CloseProgressKeepsOpen(w) ==
  /\ rd[w].pc = "close"
  /\ Return(1, w, IF rd[w].err = "EOF" THEN "nil" ELSE "copy")
  /\ rd' = [rd EXCEPT ![w] = [pc |-> "none", n |-> 0, err |-> "nil"]]
  /\ UNCHANGED <<mainVars, setupVars, nameVars, variant, proc, disk, clients,
                 clientsMux, ws, bc, writing, sub, age, after, extVars>>

\* io.Copy has returned: close(progressChan), and downloadFile returns the
\* error of the copy or nil (part_005:277-281).
CloseProgress(w) ==
  /\ rd[w].pc = "close"
  /\ Return(1, w, IF rd[w].err = "EOF" THEN "nil" ELSE "copy")
  /\ rd' = [rd EXCEPT ![w] = [pc |-> "none", n |-> 0, err |-> "nil"]]
  /\ progressChan' = [progressChan EXCEPT ![wk[1][w].url].state = "closed",
                                          ![wk[1][w].url].closes = @ + 1]
  /\ UNCHANGED <<mainVars, setupVars, nameVars, variant, proc, disk, clients,
                 clientsMux, ws, bc, writing, sub, age, after, readVars,
                 lockVars, activeDownloads, reporting, sftpVars>>

\* The subscriber computes the percentage of the value it received, -1
\* without a file size, and calls updateDownloadStatus(url, "downloading",
\* prog, false, "") (part_005:256-263).
SubscriberUpdate(u) ==
  /\ sub[u] = "update"
  /\ sub' = [sub EXCEPT ![u] = "sleep"]
  /\ LET c == progressChan[u]
         prog == IF c.size > 0 THEN (c.value * 100) \div c.size ELSE -1
     IN activeDownloads' =
          updateDownloadStatus(activeDownloads, proc[1].urls[c.url],
                               "downloading", prog, FALSE, "")
  /\ UNCHANGED <<mainVars, setupVars, nameVars, poolVars, clients, clientsMux,
                 ws, bc, writing, rd, age, after, readVars, lockVars,
                 reporting, progressChan, sftpVars>>

\* time.Sleep(500 * time.Millisecond) is over and the range loop receives
\* again (part_005:264-265).
SubscriberWake(u) ==
  /\ sub[u] = "sleep"
  /\ sub' = [sub EXCEPT ![u] = "recv"]
  /\ UNCHANGED <<mainVars, setupVars, nameVars, poolVars, clients, clientsMux,
                 ws, bc, writing, rd, age, after, extVars>>

\* The range loop finds progressChan closed and the subscriber ends
\* (part_005:255-266, 277).
SubscriberExit(u) ==
  /\ sub[u] = "recv"
  /\ progressChan[u].state = "closed"
  /\ sub' = [sub EXCEPT ![u] = "done"]
  /\ UNCHANGED <<mainVars, setupVars, nameVars, poolVars, clients, clientsMux,
                 ws, bc, writing, rd, age, after, extVars>>

NextProgress ==
  \/ StartWorker(1)
  \/ Feed(1)
  \/ CloseChan(1)
  \/ WaitReturn(1)
  \/ \E w \in 1..workers :
       \/ reporting[w] = 0 /\ Receive(1, w)
       \/ reporting[w] = 0 /\ WorkerExit(1, w)
       \/ ReportDownloading(w)
       \/ reporting[w] # 0 /\ CreateFile(1, w)
       \/ Get(1, w)
       \/ ReportOutcome(w)
       \/ StartCopy(w)
       \/ ReadBody(w)
       \/ Handoff(w)
       \/ CopyWrite(w)
       \/ CloseProgress(w)
  \/ \E u \in 1..MaxBatch :
       \/ SubscriberUpdate(u)
       \/ SubscriberWake(u)
       \/ SubscriberExit(u)

SpecProgress == InitProgress /\ [][NextProgress]_vars

\* The goroutines of the download are scheduled: a step that stays possible
\* is taken in the end. Every step of NextProgress is one of a goroutine
\* that is runnable, or the meeting of a send with a receive that are both
\* waiting.
SpecProgressFair == SpecProgress /\ WF_vars(NextProgress)

\* ===================================================================
\* readURLs
\* ===================================================================
\* Longest URL file.
MaxFileLen == 4

\* The bytes of the modelled files: a letter, the blank, the line feed and
\* the carriage return.
FileChars == {"a", " ", "\n", "\r"}

\* What unicode.IsSpace accepts of them.
IsSpace(c) == c \in {" ", "\n", "\r", "\t"}

\* strings.TrimSpace (main.go:163): the leading white space is cut, then the
\* trailing.
RECURSIVE TrimLeft(_)
TrimLeft(str) ==
  IF str # <<>> /\ IsSpace(Head(str)) THEN TrimLeft(Tail(str)) ELSE str

RECURSIVE TrimRight(_)
TrimRight(str) ==
  IF str # <<>> /\ IsSpace(str[Len(str)])
  THEN TrimRight(SubSeq(str, 1, Len(str) - 1)) ELSE str

\* TrimSpace that leaves the trailing white space.
TrimSpaceLeftOnly(str) == TrimLeft(str)

TrimSpace(str) == TrimRight(TrimLeft(str))

\* bufio.ScanLines on the bytes after position p: the index of the first
\* line feed, or one past the end of the file.
RECURSIVE LineEnd(_, _)
LineEnd(text, p) ==
  IF p > Len(text) \/ text[p] = "\n" THEN p ELSE LineEnd(text, p + 1)

\* The token without one trailing carriage return (dropCR).
DropCR(tok) ==
  IF tok # <<>> /\ tok[Len(tok)] = "\r"
  THEN SubSeq(tok, 1, Len(tok) - 1) ELSE tok

\* readURLs is called with the name of a file of any content.
InitRead ==
  /\ MainAtRest
  /\ NameIdle
  /\ PoolIdle
  /\ WebIdle
  /\ LockIdle
  /\ StatusIdle
  /\ SftpIdle
  /\ fileText \in UNION { [1..n -> FileChars] : n \in 0..MaxFileLen }
  /\ scanner = 0
  /\ read = [pc |-> "open", urls |-> <<>>, err |-> "nil"]

\* os.Open (main.go:154-158): it fails and readURLs returns nil and the
\* error, or the scanner is made on the file.
OpenFile ==
  /\ read.pc = "open"
  /\ \/ read' = [read EXCEPT !.pc = "returned", !.err = "open"]
     \/ read' = [read EXCEPT !.pc = "scan"]
  /\ UNCHANGED <<mainVars, setupVars, nameVars, poolVars, webVars, fileText,
                 scanner, lockVars, statusVars, sftpVars>>

\* One iteration of the loop (main.go:162-166): scanner.Scan() finds a
\* token, the bytes up to the next line feed or the end of the file, and the
\* trimmed token is appended unless it is empty.
ScanLine ==
  /\ read.pc = "scan"
  /\ scanner < Len(fileText)
  /\ LET e == LineEnd(fileText, scanner + 1)
         url == TrimSpace(DropCR(SubSeq(fileText, scanner + 1, e - 1)))
     IN /\ scanner' = IF e > Len(fileText) THEN Len(fileText) ELSE e
        /\ read' = [read EXCEPT !.urls = IF url # <<>> THEN Append(@, url)
                                         ELSE @]
  /\ UNCHANGED <<mainVars, setupVars, nameVars, poolVars, webVars, fileText,
                 lockVars, statusVars, sftpVars>>

\* scanner.Scan() returns false because reading failed or a line is longer
\* than the scanner's buffer: scanner.Err() is not nil and readURLs returns
\* nil with it (main.go:168-170).
ScanError ==
  /\ read.pc = "scan"
  /\ read' = [pc |-> "returned", urls |-> <<>>, err |-> "scan"]
  /\ UNCHANGED <<mainVars, setupVars, nameVars, poolVars, webVars, fileText,
                 scanner, lockVars, statusVars, sftpVars>>

\* scanner.Scan() returns false at the end of the file and readURLs returns
\* the urls (main.go:162, 168-172).
ScanEnd ==
  /\ read.pc = "scan"
  /\ scanner = Len(fileText)
  /\ read' = [read EXCEPT !.pc = "returned"]
  /\ UNCHANGED <<mainVars, setupVars, nameVars, poolVars, webVars, fileText,
                 scanner, lockVars, statusVars, sftpVars>>

NextRead == OpenFile \/ ScanLine \/ ScanError \/ ScanEnd

SpecRead == InitRead /\ [][NextRead]_vars

\* ===================================================================
\* The SFTP and database variant (part_000)
\* ===================================================================
\* const maxConcurrentDownloads = 5 (part_000:93), scaled so that the
\* archives exceed it.
maxConcurrentDownloads == 2

FileNames == {"x", "y"}

\* The bytes of the remote file of an archive.
RemoteFile(id) == IF id = 1 THEN <<1, 1>> ELSE <<id>>

\* The query has returned the rows with is_downloaded = 0, the connections
\* are made and the local directory exists (part_000:46-90). Rows may name
\* the same file; "x" may be in the directory already.
InitSftp ==
  /\ MainAtRest
  /\ NameIdle
  /\ PoolIdle
  /\ WebIdle
  /\ ReadIdle
  /\ LockIdle
  /\ StatusIdle
  /\ archives \in [1..MaxArchives -> FileNames]
  /\ db = [id \in 1..MaxArchives |-> 0]
  /\ \E old \in BOOLEAN :
       local = [f \in FileNames |->
                  IF old /\ f = "x"
                  THEN [exists |-> TRUE, content |-> <<9>>]
                  ELSE NoLocalFile]
  /\ ar = [a \in 1..MaxArchives |-> NoArchive]
  /\ sftp = [pc |-> "loop", next |-> 1, sem |-> 0, wg |-> 0]

\* An archive goroutine that has been started and has not returned.
Alive(a) == ar[a].pc \notin {"none", "exit"}

\* An archive goroutine between its start and its deferred <-sem.
HoldsSlot(a) == ar[a].pc \notin {"none", "released", "exit"}

\* One iteration of the loop over archives: wg.Add(1), the send on sem, which
\* waits for a free slot, and the go statement (part_000:97-101).
StartArchive ==
  /\ sftp.pc = "loop"
  /\ sftp.next <= MaxArchives
  /\ sftp.sem < maxConcurrentDownloads
  /\ sftp' = [sftp EXCEPT !.next = @ + 1, !.sem = @ + 1, !.wg = @ + 1]
  /\ ar' = [ar EXCEPT ![sftp.next].pc = "stat"]
  /\ UNCHANGED <<mainVars, setupVars, nameVars, poolVars, webVars, readVars,
                 lockVars, statusVars, archives, db, local>>

\* The goroutine returns: its deferred functions run, the one deferred last
\* first. This is func() { <-sem }() (part_000:103).
ArchiveReturn(a, did) ==
  ar' = [ar EXCEPT ![a].pc = "release", ![a].ops = @ \cup did]

\* os.Stat tested without returning when the file is there.
StatNeverSkips(a) ==
  /\ ar[a].pc = "stat"
  /\ ar' = [ar EXCEPT ![a].pc = "open",
                      ![a].existed = local[archives[a]].exists]
  /\ UNCHANGED <<mainVars, setupVars, nameVars, poolVars, webVars, readVars,
                 lockVars, statusVars, archives, db, local, sftp>>

\* os.Stat(localFilePath) returns no error when the file is there, and the
\* goroutine returns (part_000:108-111).
Stat(a) ==
  /\ ar[a].pc = "stat"
  /\ ar' = [ar EXCEPT ![a].pc = IF local[archives[a]].exists
                                THEN "release" ELSE "open",
                      ![a].existed = local[archives[a]].exists]
  /\ UNCHANGED <<mainVars, setupVars, nameVars, poolVars, webVars, readVars,
                 lockVars, statusVars, archives, db, local, sftp>>

\* sftpClient.Open(remoteFilePath) fails and the goroutine returns, or gives
\* the remote file (part_000:114-119).
OpenRemote(a) ==
  /\ ar[a].pc = "open"
  /\ \/ ArchiveReturn(a, {"open failed"})
     \/ ar' = [ar EXCEPT ![a].pc = "create", ![a].ops = @ \cup {"open"}]
  /\ UNCHANGED <<mainVars, setupVars, nameVars, poolVars, webVars, readVars,
                 lockVars, statusVars, archives, db, local, sftp>>

\* os.Create(localFilePath) fails and the goroutine returns, or makes the
\* file empty (part_000:121-126).
CreateLocal(a) ==
  /\ ar[a].pc = "create"
  /\ \/ /\ ArchiveReturn(a, {"create failed"})
        /\ UNCHANGED local
     \/ /\ ar' = [ar EXCEPT ![a].pc = "copy", ![a].ops = @ \cup {"create"}]
        /\ local' = [local EXCEPT ![archives[a]] =
                       [exists |-> TRUE, content |-> <<>>]]
  /\ UNCHANGED <<mainVars, setupVars, nameVars, poolVars, webVars, readVars,
                 lockVars, statusVars, archives, db, sftp>>

\* io.Copy going on to the UPDATE after an error.
CopyRemoteIgnoresError(a) ==
  /\ ar[a].pc = "copy"
  /\ \/ /\ ar[a].off < Len(RemoteFile(a))
        /\ local' = [local EXCEPT ![archives[a]].content =
                       WriteAt(@, ar[a].off, RemoteFile(a)[ar[a].off + 1])]
        /\ ar' = [ar EXCEPT ![a].off = @ + 1, ![a].ops = @ \cup {"write"}]
     \/ /\ ar[a].off = Len(RemoteFile(a))
        /\ ar' = [ar EXCEPT ![a].pc = "exec"]
        /\ UNCHANGED local
     \/ /\ ar' = [ar EXCEPT ![a].pc = "exec",
                            ![a].ops = @ \cup {"copy failed"}]
        /\ UNCHANGED local
  /\ UNCHANGED <<mainVars, setupVars, nameVars, poolVars, webVars, readVars,
                 lockVars, statusVars, archives, db, sftp>>

\* io.Copy(localFile, remoteFile) writes the next byte at the offset of its
\* own file handle, ends at the end of the remote file, or fails and the
\* goroutine returns (part_000:128-131).
CopyRemote(a) ==
  /\ ar[a].pc = "copy"
  /\ \/ /\ ar[a].off < Len(RemoteFile(a))
        /\ local' = [local EXCEPT ![archives[a]].content =
                       WriteAt(@, ar[a].off, RemoteFile(a)[ar[a].off + 1])]
        /\ ar' = [ar EXCEPT ![a].off = @ + 1, ![a].ops = @ \cup {"write"}]
     \/ /\ ar[a].off = Len(RemoteFile(a))
        /\ ar' = [ar EXCEPT ![a].pc = "exec"]
        /\ UNCHANGED local
     \/ /\ ArchiveReturn(a, {"copy failed"})
        /\ UNCHANGED local
  /\ UNCHANGED <<mainVars, setupVars, nameVars, poolVars, webVars, readVars,
                 lockVars, statusVars, archives, db, sftp>>

\* db.Exec("UPDATE oms_archives SET is_downloaded = 1 WHERE oms_id = ?")
\* sets the row, or fails; the goroutine returns (part_000:135-141).
MarkDownloaded(a) ==
  /\ ar[a].pc = "exec"
  /\ \/ /\ db' = [db EXCEPT ![a] = 1]
        /\ ArchiveReturn(a, {"exec"})
     \/ /\ ArchiveReturn(a, {"exec failed"})
        /\ UNCHANGED db
  /\ UNCHANGED <<mainVars, setupVars, nameVars, poolVars, webVars, readVars,
                 lockVars, statusVars, archives, local, sftp>>

\* The deferred <-sem frees the slot (part_000:103).
ReleaseSlot(a) ==
  /\ ar[a].pc = "release"
  /\ ar' = [ar EXCEPT ![a].pc = "released"]
  /\ sftp' = [sftp EXCEPT !.sem = @ - 1]
  /\ UNCHANGED <<mainVars, setupVars, nameVars, poolVars, webVars, readVars,
                 lockVars, statusVars, archives, db, local>>

\* The deferred wg.Done() (part_000:102), and the goroutine is gone.
ArchiveDone(a) ==
  /\ ar[a].pc = "released"
  /\ ar' = [ar EXCEPT ![a].pc = "exit"]
  /\ sftp' = [sftp EXCEPT !.wg = @ - 1]
  /\ UNCHANGED <<mainVars, setupVars, nameVars, poolVars, webVars, readVars,
                 lockVars, statusVars, archives, db, local>>

\* The loop is over and wg.Wait() returns (part_000:145).
SftpWait ==
  /\ sftp.pc = "loop"
  /\ sftp.next > MaxArchives
  /\ sftp.wg = 0
  /\ sftp' = [sftp EXCEPT !.pc = "done"]
  /\ UNCHANGED <<mainVars, setupVars, nameVars, poolVars, webVars, readVars,
                 lockVars, statusVars, archives, db, local, ar>>

NextSftp ==
  \/ StartArchive
  \/ SftpWait
  \/ \E a \in 1..MaxArchives :
       \/ Stat(a)
       \/ OpenRemote(a)
       \/ CreateLocal(a)
       \/ CopyRemote(a)
       \/ MarkDownloaded(a)
       \/ ReleaseSlot(a)
       \/ ArchiveDone(a)

SpecSftp == InitSftp /\ [][NextSftp]_vars

\* ===================================================================
\* Properties
\* ===================================================================

\* The goroutine holds a semaphore slot.
Holding(i) ==
  pc[i] \in {"wait", "request", "copy", "backoff", "send", "lock", "unlock"}

\* The goroutine is inside downloadFile.
InDownloadFile(i) == pc[i] \in {"wait", "request", "copy", "backoff"}

\* downloadFile has returned the goroutine's result.
Returned(i) == pc[i] \in {"send", "lock", "unlock", "exit"}

\* The summary has been printed.
BatchDone == mainPc \in {"done", "returned"}

\* C1: the collection loop never receives two results of one URL occurrence,
\* and when the summary is printed it has received one result of every URL
\* occurrence, each counted once: successful + failed = len(urls).
C1_OneResultPerURL ==
  /\ \A i \in G : recv[i] <= 1
  /\ BatchDone =>
       /\ \A i \in G : recv[i] = 1
       /\ successful + failed = N
       /\ successful = Cardinality({i \in G : result[i].Success})

\* A batch larger than the semaphore and the results channel, cancelled on
\* the way, with successes and failures, has been summarised.
C1_Witness ==
  /\ mainPc = "done"
  /\ N > maxParallel
  /\ N > resultsCap
  /\ cancelled
  /\ successful >= 1
  /\ failed >= 2
  /\ \E i \in G : result[i].Error.kind = "exhausted"

\* C2: never more than maxParallel goroutines hold a semaphore slot, so never
\* more than maxParallel are inside downloadFile.
C2_AtMostMaxParallel ==
  /\ Cardinality({i \in G : Holding(i)}) <= maxParallel
  /\ Cardinality({i \in G : InDownloadFile(i)}) <= maxParallel
  /\ sem = Cardinality({i \in G : Holding(i)})

\* maxParallel transfers are in progress while another goroutine waits for
\* a slot.
C2_Witness ==
  /\ Cardinality({i \in G : pc[i] = "copy"}) = maxParallel
  /\ \E i \in G : pc[i] = "acquire"

\* C3: tryDownload is called at most maxRetries + 1 times for a URL, and a
\* result without success that is returned while the context is not
\* cancelled comes after exactly maxRetries + 1 calls.
C3_AtMostMaxRetriesPlusOne ==
  \A i \in G :
    /\ calls[i] <= maxRetries + 1
    /\ (Returned(i) /\ ~cancelled /\ ~result[i].Success) =>
         /\ calls[i] = maxRetries + 1
         /\ result[i].Error.kind = "exhausted"

\* With maxRetries = 2 every of the three attempts has failed.
C3_Witness ==
  \E i \in G :
    /\ maxRetries = 2
    /\ pc[i] = "send"
    /\ ~cancelled
    /\ ~result[i].Success
    /\ calls[i] = 3

\* C4: the error of exhausted retries reports the number of attempts made,
\* maxRetries + 1, and wraps the last attempt's error.
C4_ReportsAttemptsMade ==
  \A i \in G :
    result[i].Error.kind = "exhausted" =>
      /\ result[i].Error.n = calls[i]
      /\ result[i].Error.n = maxRetries + 1

\* C5: a successful result comes from the attempt after the failed ones
\* (attempt[i] counts them): tryDownload was called attempt[i] + 1 times, as
\* many limiter tokens were taken, the hash is that of the body the attempt
\* streamed, and downloadFile has returned: no wait or attempt follows.
C5_SuccessShortCircuits ==
  \A i \in G :
    result[i].Success =>
      /\ Returned(i)
      /\ calls[i] = attempt[i] + 1
      /\ acq[i] = attempt[i] + 1
      /\ timer[i] = 0
      /\ result[i].Hash = HexEncode(Sum256(Body(i)))

\* The last permitted attempt succeeds after maxRetries = 2 failed ones.
C5_Witness ==
  \E i \in G :
    /\ maxRetries = 2
    /\ ~cancelled
    /\ pc[i] = "send"
    /\ result[i].Success
    /\ attempt[i] = 2
    /\ calls[i] = 3

\* C6: the admissions of the shared limiter, of first attempts and retries of
\* all goroutines, are spaced by the refill interval: the j-th and the k-th
\* of the remembered admissions are at least k - j ticks (of 1/rateLimit
\* seconds) apart, and no attempt starts without an admission of its own.
C6_AdmissionsSpaced ==
  /\ \A j, k \in 1..Len(ages) :
       j < k => (ages[k] = AgeCap \/ ages[k] - ages[j] >= k - j)
  /\ \A i \in G : calls[i] <= acq[i] /\ acq[i] <= calls[i] + 1
  /\ tokens \in {0, 1}

\* With both goroutines inside downloadFile, a retry is admitted exactly one
\* tick after the admission before it.
C6_Witness ==
  /\ N = 2
  /\ \A i \in G : InDownloadFile(i)
  /\ \E i \in G : attempt[i] = 1 /\ pc[i] = "request"
  /\ ages = <<0, 1>>

\* A URL is reported once its result has been received by the collection loop.
Reported(i) == recv[i] = 1

\* Something other than the passing of time can happen.
Progress ==
  \/ Spawn \/ StartCollect \/ CloseResults \/ Collect \/ Summary
  \/ \E i \in G : Worker(i)

\* C7: once the context is cancelled no limiter token is taken any more, no
\* URL is ever reported twice, the batch cannot get stuck before its summary,
\* and at the summary every URL has been reported.
C7_CancelledBatchReportsAll ==
  /\ [][cancelled => acq' = acq]_vars
  /\ [](\A i \in G : recv[i] <= 1)
  /\ []((cancelled /\ ~BatchDone) => ENABLED Progress)
  /\ []((cancelled /\ BatchDone) => \A i \in G : Reported(i))

\* A batch cancelled on the way is summarised: one URL was in its backoff
\* wait, another one never got a limiter token.
C7_Witness ==
  /\ mainPc = "done"
  /\ cancelled
  /\ \A i \in G : Reported(i)
  /\ \E i, j \in G :
       /\ result[i].Error.kind = "ctx"
       /\ result[j].Error.kind = "ratelimit"
       /\ acq[j] = 0

\* The result of an item whose processing was ended by the cancellation.
CancellationOutcome(i) == Returned(i) /\ result[i].Error.cause = "canceled"

DiskHash(f) == HexEncode(Sum256(Content(f)))

\* Every successful outcome names an existing file of the outcome's hash.
HashesMatchDisk ==
  \A i \in G :
    result[i].Success =>
      Exists(Filename(i)) /\ DiskHash(Filename(i)) = result[i].Hash

URLsDistinct == \A i, j \in G : i # j => urls[i] # urls[j]

DestinationsDistinct == \A i, j \in G : i # j => Filename(i) # Filename(j)

\* C10 as stated: for pairwise distinct URLs the hashes match the files.
C10_DistinctURLsHashOnDisk == (BatchDone /\ URLsDistinct) => HashesMatchDisk

\* C10 amended: for URLs of pairwise distinct destination file names the
\* hashes match the files once the batch has finished.
C10_DistinctDestinationsHashOnDisk ==
  (BatchDone /\ DestinationsDistinct) => HashesMatchDisk

\* Two URLs of different names have both succeeded, one of them at its
\* second attempt.
C10_Witness ==
  /\ mainPc = "done"
  /\ N = 2
  /\ DestinationsDistinct
  /\ \A i \in G : result[i].Success
  /\ \E i \in G : attempt[i] = 1

\* C13: the step on which a URL's downloadFile returns a failure changes
\* nothing of main, of the context or of the other URLs' goroutines, and in a
\* batch that was not cancelled every URL has been attempted, has its own
\* outcome received, and carries an error exactly if it failed.
C13_FailureStaysWithItsURL ==
  /\ [][\A i \in G :
          (InDownloadFile(i) /\ pc'[i] = "send" /\ ~result'[i].Success) =>
            /\ cancelled' = cancelled
            /\ mainPc' = mainPc
            /\ closed' = closed
            /\ \A j \in G \ {i} :
                 pc'[j] = pc[j] /\ result'[j] = result[j]
                   /\ attempt'[j] = attempt[j]]_vars
  /\ []((mainPc = "done" /\ ~cancelled) =>
          \A i \in G :
            /\ calls[i] >= 1
            /\ recv[i] = 1
            /\ result[i].Success <=> result[i].Error = NoError
            /\ ~result[i].Success =>
                 (result[i].Error.kind = "exhausted"
                    /\ calls[i] = maxRetries + 1))

\* Without cancellation, the first URL has failed on every attempt and the
\* second one has succeeded.
C13_Witness ==
  /\ mainPc = "done"
  /\ ~cancelled
  /\ N = 2
  /\ result[1].Error.kind = "exhausted"
  /\ calls[1] = maxRetries + 1
  /\ result[2].Success

\* C14: when the output directory cannot be created NewDownloader returns
\* nil and an error and main exits; when the URL file cannot be read or has
\* no URL main stops; in all these cases no goroutine was started, no
\* limiter token taken and no request made.
C14_SetupErrorsStopBeforeWork ==
  /\ downloader.err # "nil" =>
       (downloader.ptr = "nil" /\ mainPc = "exited" /\ exitCode = 1)
  /\ (mainPc = "exited" \/ (mainPc \notin {"init", "read"} /\ N = 0)) =>
       /\ mainPc \in {"exited", "returned"}
       /\ urls = <<>>
       /\ spawned = 0
       /\ wg = 0
       /\ closerPc = "none"
       /\ tokens = 1
       /\ ages = <<>>
       /\ results = <<>>

\* The output directory could not be created.
C14_Witness ==
  /\ mainPc = "exited"
  /\ downloader = MkdirError
  /\ exitCode = 1
  /\ spawned = 0

\* C15: progress.completed starts at 0, changes only by +1 on a step that
\* takes progress.mu, lies between 0 and total, counts the goroutines that
\* have reported, and equals total exactly when all of them have.
C15_CompletedCountsReports ==
  /\ completed = 0
  /\ [][completed' # completed =>
          /\ completed' = completed + 1
          /\ mu = 0
          /\ mu' \in G
          /\ pc[mu'] = "lock"]_vars
  /\ [](/\ 0 <= completed
        /\ completed <= N
        /\ completed = Cardinality({i \in G : pc[i] \in {"unlock", "exit"}})
        /\ completed = N <=> \A i \in G : pc[i] \in {"unlock", "exit"})

\* The last goroutine of a batch larger than the semaphore has counted
\* itself and still holds the mutex.
C15_Witness ==
  /\ N > maxParallel
  /\ completed = N
  /\ mu # 0
  /\ pc[mu] = "unlock"

\* C16: the results channel is closed only after every goroutine has sent
\* its result and finished, so nothing is sent on the closed channel, and the
\* summary comes only after every URL's outcome was received.
C16_CloseAfterAllSent ==
  /\ closed =>
       /\ wg = 0
       /\ \A i \in G :
            /\ pc[i] = "exit"
            /\ recv[i] + Cardinality({k \in 1..Len(results) : results[k] = i})
                 = 1
  /\ BatchDone => (closed /\ results = <<>> /\ \A i \in G : recv[i] = 1)

\* The channel of a batch larger than its capacity is closed while the last
\* result is still in it.
C16_Witness ==
  /\ N > resultsCap
  /\ closed
  /\ mainPc = "collect"
  /\ Len(results) = 1
  /\ \A i \in G : pc[i] = "exit"

\* C11: for every URL string the destination computed by downloadFile is a
\* file directly inside outputDir, and whenever path.Base(url) is empty or
\* unsafe for path traversal ("", "/", ".", "..") the fallback name is used.
C11_DestinationInsideOutputDir ==
  LET c == SplitPath(dest)
      o == SplitPath(filepathClean(outputDir))
  IN namePc = "named" =>
       /\ Len(c) = Len(o) + 1
       /\ SubSeq(c, 1, Len(o)) = o
       /\ c[Len(c)] \notin {<<>>, <<".">>, DotDot}
       /\ pathBase(arg) \in {<<>>, <<"/">>, <<".">>, DotDot} => usedFallback

\* C12: sanitizeFilename(s) has the length of s, contains none of the nine
\* unsafe characters, has "_" where s had one of them and the character of s
\* everywhere else, and applying it again changes nothing.
C12_SanitizeReplacesUnsafe ==
  namePc \in {"sanitized", "named"} =>
    /\ Len(safe) = Len(arg)
    /\ \A k \in 1..Len(safe) :
         /\ safe[k] \notin UnsafeChars
         /\ arg[k] \in UnsafeChars => safe[k] = "_"
         /\ arg[k] \notin UnsafeChars => safe[k] = arg[k]
    /\ sanitizeFilename(safe) = safe

\* A string with two different unsafe characters around a safe one has been
\* sanitized.
C12_Witness ==
  /\ namePc = "sanitized"
  /\ arg = <<"/", "a", "|">>
  /\ safe = <<"_", "a", "_">>

\* How often URL occurrence k of call r is in the URL channel.
InChan(r, k) ==
  Cardinality({n \in 1..Len(proc[r].urlChan) : proc[r].urlChan[n] = k})

\* C17: a call of processURLs starts exactly `workers` workers whatever the
\* size of its batch; every URL occurrence put on the channel is in the
\* channel or was taken by one worker, never twice; the feeding loop never
\* finds the channel full; the channel is closed after the last URL; and
\* processURLs returns only after every URL was handled and every worker is
\* done.
C17_EachURLToOneWorker ==
  LET p == proc[1]
      n == Len(p.urls)
  IN /\ p.started <= workers
     /\ p.started = Cardinality({w \in 1..workers : wk[1][w].pc # "none"})
     /\ p.pc \notin {"idle", "start"} => p.started = workers
     /\ \A k \in 1..n :
          /\ p.taken[k] + InChan(1, k) = (IF k <= p.fed THEN 1 ELSE 0)
          /\ Cardinality({w \in 1..workers : wk[1][w].url = k}) <= p.taken[k]
     /\ (p.pc = "feed" /\ p.fed < n) => Len(p.urlChan) < n
     /\ p.closed => p.fed = n
     /\ p.pc = "returned" =>
          /\ \A k \in 1..n : p.taken[k] = 1
          /\ \A w \in 1..workers : wk[1][w].pc = "exit"
          /\ p.urlChan = <<>>

\* processURLs has returned for a batch of more URLs than workers, the
\* first of which occurs twice.
C17_Witness ==
  /\ variant = "cli"
  /\ proc[1].pc = "returned"
  /\ Len(proc[1].urls) > workers
  /\ proc[1].urls[1] = proc[1].urls[3]
  /\ \A k \in 1..Len(proc[1].urls) : proc[1].taken[k] = 1

\* The URLs of call r are written to pairwise different paths.
PathsDistinct(r) ==
  \A j, k \in 1..Len(proc[r].urls) :
    j # k => OutputPath(variant, proc[r].urls[j])
               # OutputPath(variant, proc[r].urls[k])

\* The file at the path of the worker's URL holds exactly the URL's body.
HoldsBody(d, r, w) ==
  d[PathOf(r, w)] = [exists |-> TRUE, content |-> ServerBody(UrlOf(r, w))]

\* C18 as stated: download, once the request is answered with status 200
\* (it is at os.Create or in the copy), returns nil and leaves the body in
\* the file.
C18_Status200ReturnsNil ==
  [][\A w \in 1..workers :
       (wk[1][w].pc \in {"create", "copy"} /\ wk'[1][w].pc = "range") =>
         (wk'[1][w].err = "nil" /\ HoldsBody(disk', 1, w))]_vars

\* C18 amended: download returns nil only after status 200, a successful
\* os.Create and a copy that reached the end of the body, and then, no other
\* URL of the batch being written to the same path, the file holds exactly
\* the body.
C18_NilReturnLeavesBody ==
  [][\A w \in 1..workers :
       (wk[1][w].pc \in {"get", "create", "copy"} /\ wk'[1][w].pc = "range"
          /\ wk'[1][w].err = "nil") =>
         /\ wk[1][w].pc = "copy"
         /\ wk[1][w].off = Len(ServerBody(UrlOf(1, w)))
         /\ PathsDistinct(1) => HoldsBody(disk', 1, w)]_vars

\* Both downloads of a batch of two paths have returned nil, and the file
\* that was there before, which was longer, holds the new body.
C18_Witness ==
  /\ variant = "cli"
  /\ proc[1].pc = "returned"
  /\ Len(proc[1].urls) = 2
  /\ PathsDistinct(1)
  /\ \E w \in 1..workers : wk[1][w].err = "nil"
  /\ \A w \in 1..workers : wk[1][w].err \in {"nil", "none"}
  /\ disk[OutputPath("cli", <<"h", "/", "a">>)].content = <<1, 2>>
  /\ disk[OutputPath("cli", <<"h", "/", "b">>)].content = <<1>>

\* C19: when the request cannot be made or the status is not 200, download
\* returns an error and no file is created or changed.
C19_RequestErrorTouchesNoFile ==
  [][\A w \in 1..workers :
       (wk[1][w].pc = "get" /\ wk'[1][w].pc = "range") =>
         /\ wk'[1][w].err \in {"request", "status"}
         /\ disk' = disk]_vars

\* Every download of the largest batch has failed at the request, and the
\* directory is as it was.
C19_Witness ==
  /\ variant = "cli"
  /\ proc[1].pc = "returned"
  /\ Len(proc[1].urls) > workers
  /\ \A w \in 1..workers : wk[1][w].err \in {"request", "status"}
  /\ disk = OldDisk

\* A worker is inside downloadFile or downloadTorrent.
Executing(r, w) == wk[r][w].pc \in {"get", "create", "copy", "torrent"}

\* C20: at any moment at most `workers` downloads are being executed over
\* all the requests the server has accepted.
C20_AtMostWorkersExecuting ==
  Cardinality({x \in (1..MaxRequests) \X (1..workers) :
                 Executing(x[1], x[2])}) <= workers

\* Results the collection loop has received so far.
Received == Cardinality({i \in G : recv[i] >= 1})

\* C30: a goroutine's completed++ comes before its result is sent, so the
\* collection loop has never received more results than progress.completed
\* counts.
C30_CompletedBeforeSend == Received <= completed

\* C26: every call of tryDownload follows a limiter.Wait that returned nil in
\* the same iteration, so the tokens taken for a URL are its attempts, one
\* more between the Wait and the call; and when limiter.Wait returns an error
\* downloadFile returns at once, without success, with the error that wraps
\* the limiter's, and no attempt is made afterwards.
C26_WaitBeforeEveryAttempt ==
  [][\A i \in G :
       /\ acq'[i] = calls'[i] + (IF pc'[i] = "request" THEN 1 ELSE 0)
       /\ calls'[i] # calls[i] =>
            (pc[i] = "request" /\ calls'[i] = calls[i] + 1)
       /\ (pc'[i] = "request" /\ pc[i] # "request") =>
            (pc[i] = "wait" /\ ~cancelled /\ acq'[i] = acq[i] + 1)
       /\ (pc[i] = "wait" /\ pc'[i] # "wait") =>
            \/ pc'[i] = "request"
            \/ /\ cancelled
               /\ pc'[i] = "send"
               /\ ~result'[i].Success
               /\ result'[i].Error = RateLimitError
               /\ calls'[i] = calls[i]
       /\ Returned(i) => calls'[i] = calls[i]]_vars

\* Two attempts were made with a token each, and the third limiter.Wait
\* failed: downloadFile has returned its error.
C26_Witness ==
  \E i \in G :
    /\ Returned(i)
    /\ result[i].Error = RateLimitError
    /\ acq[i] = 2
    /\ calls[i] = 2

\* C27: when the N-th attempt fails and attempts remain the wait is N
\* seconds, and the next iteration begins only when they have passed; the
\* failure of the last permitted attempt is returned without a wait; and a
\* wait during which the context is cancelled ends with the return of
\* downloadFile, without success, with ctx.Err() as the error and no further
\* attempt.
C27_LinearBackoff ==
  [][\A i \in G :
       /\ (pc'[i] = "backoff" /\ pc[i] # "backoff") =>
            /\ pc[i] \in {"request", "copy"}
            /\ calls'[i] <= maxRetries
            /\ timer'[i] = calls'[i] * rateLimit
       /\ (pc[i] \in {"request", "copy"} /\ pc'[i] \notin {"request", "copy"}
             /\ calls'[i] = maxRetries + 1) =>
            (pc'[i] = "send" /\ timer'[i] = 0)
       /\ (pc[i] = "backoff" /\ pc'[i] = "backoff") =>
            /\ timer'[i] \in {timer[i], timer[i] - 1}
            /\ timer'[i] < timer[i] => (~cancelled /\ tokens' = 1)
       /\ (pc[i] = "backoff" /\ pc'[i] # "backoff") =>
            \/ /\ timer[i] = 0
               /\ pc'[i] = "wait"
               /\ attempt'[i] = attempt[i] + 1
            \/ /\ cancelled
               /\ pc'[i] = "send"
               /\ ~result'[i].Success
               /\ result'[i].Error = ContextError
       /\ (pc[i] = "backoff" /\ cancelled /\ timer[i] > 0) =>
            (pc'[i] \in {"backoff", "send"} /\ calls'[i] = calls[i])]_vars

\* The wait of one second after the first attempt has passed, the second
\* attempt has failed, and the wait of two seconds was cut short by the
\* cancellation: downloadFile has returned ctx.Err().
C27_Witness ==
  \E i \in G :
    /\ maxRetries = 2
    /\ pc[i] = "send"
    /\ calls[i] = 2
    /\ attempt[i] = 1
    /\ result[i].Error = ContextError

\* The calls of tryDownload for the URL that have returned.
AttemptsReturned(i) ==
  attempt[i] + (IF pc[i] \in {"backoff"} \/ (Returned(i) /\ calls[i] > attempt[i])
                THEN 1 ELSE 0)

\* C29: the attempts of one URL are sequential. At most one call of
\* tryDownload is in progress, and it is the last one made; the loop variable
\* moves on only from the wait that follows a returned attempt, when that
\* wait has elapsed; and the limiter is asked for the next attempt only after
\* that.
C29_AttemptsSequential ==
  [][\A i \in G :
       /\ calls[i] - AttemptsReturned(i) \in {0, 1}
       /\ calls[i] - AttemptsReturned(i) = 1 <=> pc[i] = "copy"
       /\ pc[i] \in {"wait", "request"} => calls[i] = attempt[i]
       /\ attempt'[i] # attempt[i] =>
            /\ attempt'[i] = attempt[i] + 1
            /\ pc[i] = "backoff"
            /\ timer[i] = 0
            /\ calls[i] = attempt[i] + 1
       /\ acq'[i] # acq[i] =>
            /\ pc[i] = "wait"
            /\ timer[i] = 0
            /\ calls[i] = attempt[i]
            /\ acq[i] = attempt[i]]_vars

\* The third attempt is in progress after two that returned.
C29_Witness ==
  \E i \in G :
    /\ pc[i] = "copy"
    /\ calls[i] = 3
    /\ attempt[i] = 2
    /\ acq[i] = 3

\* C25: tryDownload overwrites. Opening the destination leaves it empty
\* whatever it held, and a download that succeeded leaves under the
\* destination exactly the body, with the body's digest as the hash, in a
\* directory that held the file of an earlier run or any other file as in an
\* empty one; the other names of the directory are not touched.
C25_SuccessReplacesOldContent ==
  [][\A i \in G :
       /\ (pc[i] = "request" /\ pc'[i] = "copy") =>
            (fs'[Filename(i)] # 0 /\ data'[fs'[Filename(i)]] = <<>>)
       /\ (Returned(i)' /\ result'[i].Success) =>
            /\ fs'[Filename(i)] # 0
            /\ data'[fs'[Filename(i)]] = Body(i)
            /\ result'[i].Hash = Digest(Sum256(Body(i)))
       /\ \A f \in DestNames \ {Filename(i)} : fs'[f] = 0]_vars

\* The download has succeeded over the longer file that was in the
\* directory: the file is the one that was there, its content the body.
C25_Witness ==
  \E i \in G :
    /\ Returned(i)
    /\ result[i].Success
    /\ fs[Filename(i)] = ForeignInode
    /\ data[ForeignInode] = Body(i)
    /\ Len(Body(i)) < 3

\* C28: a call of tryDownload whose response has a status outside 2xx fails
\* with the error that names the code; it neither creates nor truncates the
\* destination; and downloadFile treats the failure as any other: the backoff
\* wait while attempts remain, the error of exhausted retries after the last.
C28_BadStatusFailsAttempt ==
  [][\A i \in G :
       (calls'[i] = calls[i] + 1 /\ status'[i] # 0
          /\ status'[i] \notin 200..299) =>
         /\ ~result'[i].Success
         /\ status'[i] = 404 =>
              \/ /\ pc'[i] = "backoff"
                 /\ lastErr'[i] = "unexpected status code: 404"
              \/ /\ pc'[i] = "send"
                 /\ result'[i].Error.cause = "unexpected status code: 404"
         /\ fs' = fs
         /\ data' = data
         /\ fd'[i] = 0
         /\ IF calls'[i] <= maxRetries
            THEN pc'[i] = "backoff" /\ timer'[i] = calls'[i] * rateLimit
            ELSE pc'[i] = "send" /\ result'[i].Error.kind = "exhausted"]_vars

\* The response to the first attempt had status 404: the file that was in the
\* directory is as it was and downloadFile waits to try again.
C28_Witness ==
  \E i \in G :
    /\ status[i] = 404
    /\ pc[i] = "backoff"
    /\ calls[i] = 1
    /\ lastErr[i] = "unexpected status code: 404"
    /\ fs[Filename(i)] = ForeignInode
    /\ data[ForeignInode] = <<9, 9, 9>>

\* Nothing but the download worker w of call r has in hand can have put a
\* file at its path: the directory did not hold one at the start and no other
\* URL of any request is written there.
NoFileBefore(r, w) ==
  /\ ~OldDisk[PathOf(r, w)].exists
  /\ \A q \in 1..MaxRequests : \A k \in 1..Len(proc[q].urls) :
       <<q, k>> # <<r, wk[r][w].url>> =>
         OutputPath(variant, proc[q].urls[k]) # PathOf(r, w)

\* C22: when the web server's downloadFile returns an error after the
\* request (it failed, the status was not 200, or the copy failed), there is
\* no file at its output path, none having been there before the call.
C22_FailedDownloadLeavesNoFile ==
  [][\A r \in 1..MaxRequests : \A w \in 1..workers :
       (wk[r][w].pc \in {"get", "copy"} /\ wk'[r][w].pc = "range"
          /\ wk'[r][w].err # "nil" /\ NoFileBefore(r, w)) =>
         ~disk'[PathOf(r, w)].exists]_vars

\* C21: the clients map is changed only by the goroutine that holds
\* clientsMux, and at no time are two goroutines inside WriteMessage on the
\* same connection.
C21_SocketsThreadSafe ==
  [][/\ clients' # clients => clientsMux' # <<>>
     /\ \A c \in 1..MaxConns : Cardinality(writing'[c]) <= 1]_vars

\* C23: a worker is never inside downloadTorrent for more than the 24 hours
\* of its timeout, whether or not the torrent's metadata arrives.
C23_TorrentReturnsInTime ==
  \A w \in 1..workers : InTorrent(w) => age[w] <= TorrentHours

\* C24: a Read of progressReader is never held at its send on ProgressChan
\* while the subscriber is busy with the previous value or asleep.
C24_ReadNeverWaitsForSubscriber ==
  \A w \in 1..workers :
    ~(rd[w].pc = "send" /\ sub[wk[1][w].url] \in {"update", "sleep"})

LineStarts(text) ==
  { s \in 1..Len(text) : s = 1 \/ text[s - 1] = "\n" }

\* The line that begins at s, without its line feed, and what is left of it
\* between its first and its last byte that is not white space.
LineAt(text, s) ==
  LET ends == { k \in s..Len(text) : text[k] = "\n" }
      e == IF ends = {} THEN Len(text) + 1
           ELSE CHOOSE k \in ends : \A j \in ends : k <= j
  IN SubSeq(text, s, e - 1)

Core(line) ==
  LET ink == { k \in 1..Len(line) : ~IsSpace(line[k]) }
  IN IF ink = {} THEN <<>>
     ELSE SubSeq(line, CHOOSE k \in ink : \A j \in ink : k <= j,
                       CHOOSE k \in ink : \A j \in ink : k >= j)

\* The starts of the lines that are not blank.
KeptStarts(text) ==
  { s \in LineStarts(text) : Core(LineAt(text, s)) # <<>> }

\* C39: when readURLs returns without error its list holds, in file order,
\* the trimmed form of every line that is not blank and nothing else; when
\* it returns an error the list is nil.
C39_ReadURLsTrimmedLines ==
  read.pc = "returned" =>
    IF read.err = "nil"
    THEN /\ Len(read.urls) = Cardinality(KeptStarts(fileText))
         /\ \A s \in KeptStarts(fileText) :
              read.urls[Cardinality({ t \in KeptStarts(fileText) : t < s }) + 1]
                = Core(LineAt(fileText, s))
    ELSE read.urls = <<>>

\* A file of a padded line, a blank line and a line without its line feed
\* has been read.
C39_Witness ==
  /\ fileText = <<" ", "a", "\n", "a">>
  /\ read.pc = "returned"
  /\ read.err = "nil"
  /\ read.urls = << <<"a">>, <<"a">> >>

\* C34: every batch ends: every goroutine has acquired the semaphore, sent
\* its result and released its slot, the results channel is closed and
\* drained, and the summary is printed.
C34_BatchTerminates ==
  <>(/\ BatchDone
     /\ closed
     /\ results = <<>>
     /\ sem = 0
     /\ \A i \in G : pc[i] = "exit" /\ recv[i] = 1)

\* A batch of more URLs than semaphore slots and than places in the results
\* channel has ended.
C34_Witness ==
  /\ N > maxParallel
  /\ N > resultsCap
  /\ mainPc = "done"
  /\ successful + failed = N
  /\ \A i \in G : pc[i] = "exit"

\* C38: no goroutine holds downloadsMutex and clientsMux at the same time.
C38_NeverBothMutexes ==
  downloadsMutex # <<>> => downloadsMutex # clientsMux

\* A registered handler marshals the status under downloadsMutex while a
\* broadcaster holds clientsMux.
C38_Witness ==
  \E c \in 1..MaxConns, b \in 1..MaxBroadcasts :
    /\ downloadsMutex = <<"ws", c>>
    /\ clientsMux = <<"bc", b>>
    /\ c \in clients

\* C31: the status of a URL goes from queued to downloading and from there
\* to completed or failed, where it stays: an entry with Completed == true is
\* not changed again.
C31_StatusTerminal ==
  [][\A u \in DOMAIN activeDownloads :
       LET old == activeDownloads[u]
           new == activeDownloads'[u]
       IN /\ old.Completed => new = old
          /\ new.Status # old.Status =>
               \/ old.Status = "queued" /\ new.Status = "downloading"
               \/ old.Status = "downloading"
                    /\ new.Status \in {"completed", "failed"}]_vars

\* C32: every entry of activeDownloads has one of the four statuses, is
\* Completed exactly when it is completed or failed, has progress 100 and no
\* error when completed and an error when failed; and no entry is removed.
C32_EntriesConsistent ==
  /\ [](\A u \in DOMAIN activeDownloads :
          LET e == activeDownloads[u] IN
            /\ e.Status \in {"queued", "downloading", "completed", "failed"}
            /\ e.Completed <=> e.Status \in {"completed", "failed"}
            /\ e.Status = "completed" => e.Progress = 100 /\ e.Error = ""
            /\ e.Status = "failed" => e.Error # "")
  /\ [][DOMAIN activeDownloads \subseteq DOMAIN activeDownloads']_vars

\* One URL of the batch is completed, the other failed.
C32_Witness ==
  \E u, v \in DOMAIN activeDownloads :
    /\ activeDownloads[u].Status = "completed"
    /\ activeDownloads[v].Status = "failed"

\* C35: in the web server's downloadFile, progressChan is closed at most
\* once and only when io.Copy has returned, so that a Read at its send finds
\* the channel open; a call that returns has closed the channel it made
\* exactly once, or has made none and started no goroutine; and the goroutine
\* that was started ends.
C35_ProgressChanClosedOnce ==
  /\ [](\A u \in 1..MaxBatch :
          /\ progressChan[u].closes <= 1
          /\ (sub[u] = "none") = (progressChan[u].state = "none")
          /\ progressChan[u].state = "closed" => progressChan[u].closes = 1)
  /\ [](\A w \in 1..workers :
          rd[w].pc # "none" =>
            progressChan[wk[1][w].url].state = "open")
  /\ [][\A w \in 1..workers :
          wk[1][w].pc \in {"create", "get", "copy"} /\ wk'[1][w].pc = "range"
            => LET u == wk[1][w].url IN
                 \/ /\ progressChan'[u].state = "closed"
                    /\ progressChan'[u].closes = 1
                    /\ sub'[u] # "none"
                 \/ /\ progressChan'[u] = NoChan
                    /\ sub'[u] = "none"]_vars
  /\ \A u \in 1..MaxBatch : (sub[u] # "none") ~> (sub[u] = "done")

\* One download has ended after its copy, with its channel closed and its
\* goroutine gone, while the other returned before it made a channel.
C35_Witness ==
  \E u, v \in 1..MaxBatch :
    /\ progressChan[u].state = "closed"
    /\ progressChan[u].closes = 1
    /\ sub[u] = "done"
    /\ v \in DOMAIN proc[1].taken
    /\ proc[1].taken[v] = 1
    /\ progressChan[v] = NoChan
    /\ sub[v] = "none"
    /\ \A w \in 1..workers : wk[1][w].pc \in {"range", "exit"}

\* The goroutine of archive a has had io.Copy return nil after every byte of
\* the remote file, into the file it had created.
Copied(a) ==
  /\ {"open", "create"} \subseteq ar[a].ops
  /\ ar[a].off = Len(RemoteFile(a))
  /\ "copy failed" \notin ar[a].ops

\* The open, create or copy step of archive a has failed.
StepFailed(a) ==
  ar[a].ops \cap {"open failed", "create failed", "copy failed"} # {}

NamesDistinct ==
  \A a, b \in 1..MaxArchives : a # b => archives[a] # archives[b]

\* C36: an archive whose local file is there when its goroutine tests it is
\* skipped: the goroutine does not open the remote file, does not create or
\* write the local file and does not update the row, in the steps it has
\* taken and in those it takes.
C36_ExistingFileSkipped ==
  /\ [](\A a \in 1..MaxArchives :
          ar[a].existed => ar[a].ops = {} /\ db[a] = 0)
  /\ [][\A a \in 1..MaxArchives :
          ar[a].existed /\ ar'[a] # ar[a] => local' = local /\ db' = db]_vars

\* The run is over, one archive was skipped at a file that was there before
\* the run and one at a file another archive made in this run.
C36_Witness ==
  /\ sftp.pc = "done"
  /\ \E a, b, c \in 1..MaxArchives :
       /\ ar[a].existed
       /\ ar[b].existed
       /\ archives[a] = "x"
       /\ archives[b] = "y"
       /\ archives[c] = "y"
       /\ db[c] = 1

\* C37 as stated: a row is 1 only when the copy of its archive has ended
\* without error, no archive with a failed step is marked, and at most
\* maxConcurrentDownloads archive goroutines exist.
C37_MarkedOnlyAfterCopy ==
  /\ \A a \in 1..MaxArchives :
       /\ db[a] = 1 => Copied(a)
       /\ StepFailed(a) => db[a] = 0
  /\ Cardinality({ a \in 1..MaxArchives : Alive(a) }) <= maxConcurrentDownloads

\* C37, amended: a row is 1 only when the copy of its archive has ended
\* without error, with the remote file's bytes in the local file when no
\* other archive names that file; no archive with a failed step is marked;
\* and at most maxConcurrentDownloads archive goroutines hold a slot of sem.
C37_MarkedOnlyAfterCopyWithinSlots ==
  /\ \A a \in 1..MaxArchives :
       /\ db[a] = 1 => Copied(a)
       /\ db[a] = 1 /\ NamesDistinct =>
            local[archives[a]] =
              [exists |-> TRUE, content |-> RemoteFile(a)]
       /\ StepFailed(a) => db[a] = 0
  /\ Cardinality({ a \in 1..MaxArchives : HoldsSlot(a) })
       <= maxConcurrentDownloads

\* One archive is marked, the copy of another has failed, and
\* maxConcurrentDownloads goroutines hold a slot while one more has released
\* its slot and not yet returned.
C37_Witness ==
  /\ \E a, b \in 1..MaxArchives :
       /\ db[a] = 1
       /\ "copy failed" \in ar[b].ops
  /\ Cardinality({ a \in 1..MaxArchives : HoldsSlot(a) })
       = maxConcurrentDownloads
  /\ Cardinality({ a \in 1..MaxArchives : Alive(a) }) > maxConcurrentDownloads

====
